---------------------------- MODULE Spec2Model ----------------------------
(***************************************************************************)
(* Model of the Courier email library: the theme merge engine and the      *)
(* runtime CSS generator (src/src/email-styles.ts) and the Courier class   *)
(* with its template registry, composition pipeline and dispatch           *)
(* (src/src/courier.ts, the version that carries runtime themes).          *)
(***************************************************************************)
EXTENDS Integers, Sequences, FiniteSets, TLC

(***************************************************************************)
(* JavaScript values.  Objects are functions from keys to values; a key    *)
(* that is not in the DOMAIN reads as undefined.  Values whose type        *)
(* matters to a typeof / truthiness test are tagged.                       *)
(***************************************************************************)
EmptyObj == <<>>

Undefined == [type |-> "undefined"]

Null == [type |-> "null"]

Str(s) == [type |-> "string", val |-> s]

Obj(o) == [type |-> "object", val |-> o]

\* typeof v
TypeOf(v) == IF v.type = "null" THEN "object" ELSE v.type

Num(n) == [type |-> "number", num |-> n]

Arr(items) == [type |-> "array", items |-> items]

\* !v: undefined, null, "" and 0 are falsy; objects and arrays are not
Falsy(v) == \/ v.type \in {"undefined", "null"}
            \/ v = Str("")
            \/ v = Num(0)

\* o.k
Get(o, k) == IF k \in DOMAIN o THEN o[k] ELSE Undefined

\* a || b
Or(a, b) == IF Falsy(a) THEN b ELSE a

\* an error message; a wrapping message carries the message it wraps
Msg(text) == [text |-> text]

\* new Error(message)
Err(message) == [type |-> "error", message |-> message]

\* the outcome of a synchronous call
Threw(error) == [kind |-> "throw", error |-> error]

Returned(value) == [kind |-> "return", value |-> value]

\* the outcome of an asynchronous call: its promise settles
Resolved(value) == [kind |-> "resolve", value |-> value]

Rejected(error) == [kind |-> "reject", error |-> error]

\* { ...a, ...b }
Spread(a, b) == [k \in (DOMAIN a) \cup (DOMAIN b) |->
                   IF k \in DOMAIN b THEN b[k] ELSE a[k]]

\* o.k when it is to be spread: an absent object spreads nothing
Sub(o, k) == IF k \in DOMAIN o THEN o[k] ELSE EmptyObj

(***************************************************************************)
(* Design tokens and themes                                                *)
(***************************************************************************)
EmailTokens ==
  [ fontFamily |-> [mono |-> "ui-monospace, 'SFMono-Regular', Monaco, Consolas, 'Liberation Mono', 'Courier New', monospace"],
    fontSize   |-> ("xs" :> "12px") @@ ("sm" :> "14px") @@ ("base" :> "15px") @@
                   ("lg" :> "17px") @@ ("xl" :> "20px") @@ ("2xl" :> "26px") @@
                   ("3xl" :> "32px"),
    fontWeight |-> [normal |-> "400", medium |-> "500", semibold |-> "600",
                    bold |-> "700", black |-> "800"],
    lineHeight |-> [tight |-> "1.25", base |-> "1.5", relaxed |-> "1.625"],
    spacing    |-> ("xs" :> "0.5rem") @@ ("sm" :> "0.75rem") @@ ("base" :> "1rem") @@
                   ("md" :> "1.5rem") @@ ("lg" :> "2rem") @@ ("xl" :> "2.5rem") @@
                   ("2xl" :> "3rem"),
    borderWidth |-> ("thin" :> "1px") @@ ("default" :> "2px") @@
                    ("thick" :> "3px") @@ ("double" :> "6px") ]

EmailColors ==
  [ text   |-> ("default" :> "#000000") @@ ("secondary" :> "#404040") @@
               ("alt" :> "#666666") @@ ("disabled" :> "#999999"),
    bg     |-> ("default" :> "#ffffff") @@ ("subtle" :> "#fafafa") @@
               ("alt" :> "#f5f5f5") @@ ("muted" :> "#e5e5e5"),
    border |-> ("default" :> "#000000") @@ ("soft" :> "#d4d4d4") @@
               ("muted" :> "#e5e5e5"),
    accent |-> ("default" :> "#0891b2") @@ ("hover" :> "#0e7490") @@
               ("muted" :> "#cffafe") ]

DefaultTheme ==
  [ colors |->
      [ text             |-> EmailColors.text["default"],
        textSecondary    |-> EmailColors.text["secondary"],
        textAlt          |-> EmailColors.text["alt"],
        background       |-> EmailColors.bg["default"],
        backgroundSubtle |-> EmailColors.bg["subtle"],
        backgroundAlt    |-> EmailColors.bg["alt"],
        border           |-> EmailColors.border["default"],
        borderSoft       |-> EmailColors.border["soft"],
        accent           |-> EmailColors.accent["default"],
        accentHover      |-> EmailColors.accent["hover"],
        accentMuted      |-> EmailColors.accent["muted"] ],
    typography |->
      [ fontFamily |-> EmailTokens.fontFamily.mono,
        fontSize   |-> EmailTokens.fontSize,
        fontWeight |-> EmailTokens.fontWeight,
        lineHeight |-> EmailTokens.lineHeight.base ],
    spacing |-> Spread(EmailTokens.spacing,
                       [line |-> EmailTokens.spacing["md"],
                        containerPadding |-> EmailTokens.spacing["md"]]),
    borders |->
      [ widthThin   |-> EmailTokens.borderWidth["thin"],
        width       |-> EmailTokens.borderWidth["default"],
        widthThick  |-> EmailTokens.borderWidth["thick"],
        widthDouble |-> EmailTokens.borderWidth["double"] ],
    container |-> [ maxWidth |-> "600px" ] ]

DarkTheme ==
  [ colors |->
      [ text             |-> "#f5f5f5",
        textSecondary    |-> "#d4d4d4",
        textAlt          |-> "#a0a0a0",
        background       |-> "#0d1117",
        backgroundSubtle |-> "#161b22",
        backgroundAlt    |-> "#1c2128",
        border           |-> "#30363d",
        borderSoft       |-> "#525252",
        accent           |-> "#60a5fa",
        accentHover      |-> "#3b82f6",
        accentMuted      |-> "#1e3a5f" ],
    typography |-> DefaultTheme.typography,
    spacing    |-> DefaultTheme.spacing,
    borders    |-> DefaultTheme.borders,
    container  |-> DefaultTheme.container ]

ProfessionalTheme ==
  [ colors |->
      [ text             |-> "#1f2937",
        textSecondary    |-> "#4b5563",
        textAlt          |-> "#6b7280",
        background       |-> "#ffffff",
        backgroundSubtle |-> "#f9fafb",
        backgroundAlt    |-> "#f3f4f6",
        border           |-> "#d1d5db",
        borderSoft       |-> "#e5e7eb",
        accent           |-> "#2563eb",
        accentHover      |-> "#1e40af",
        accentMuted      |-> "#dbeafe" ],
    typography |->
      [ fontFamily |-> "'Inter', -apple-system, BlinkMacSystemFont, 'Segoe UI', sans-serif",
        fontSize   |-> EmailTokens.fontSize,
        fontWeight |-> [normal |-> "400", medium |-> "500", semibold |-> "600",
                        bold |-> "700", black |-> "800"],
        lineHeight |-> "1.5" ],
    spacing |-> Spread(EmailTokens.spacing,
                       [line |-> "1.5rem", containerPadding |-> "2rem"]),
    borders   |-> DefaultTheme.borders,
    container |-> [ maxWidth |-> "700px" ] ]

ColorfulTheme ==
  [ colors |->
      [ text             |-> "#1e293b",
        textSecondary    |-> "#475569",
        textAlt          |-> "#64748b",
        background       |-> "#ffffff",
        backgroundSubtle |-> "#fffbeb",
        backgroundAlt    |-> "#fef3c7",
        border           |-> "#f59e0b",
        borderSoft       |-> "#fcd34d",
        accent           |-> "#ec4899",
        accentHover      |-> "#db2777",
        accentMuted      |-> "#fce7f3" ],
    typography |-> DefaultTheme.typography,
    spacing    |-> DefaultTheme.spacing,
    borders |->
      [ widthThin   |-> "2px",
        width       |-> "3px",
        widthThick  |-> "4px",
        widthDouble |-> "8px" ],
    container |-> DefaultTheme.container ]

(***************************************************************************)
(* Theme merge engine                                                      *)
(***************************************************************************)
\* mergeTheme with the group-level spread replaced by group replacement
\* mergeTheme that fills the fontWeight map from the custom fontSize map
mergeThemeCrossedMaps(customTheme) ==
  IF Falsy(customTheme) THEN DefaultTheme
  ELSE LET c == customTheme.val IN
    [ colors |-> Spread(DefaultTheme.colors, Sub(c, "colors")),
      typography |->
        Spread(Spread(DefaultTheme.typography, Sub(c, "typography")),
               [ fontSize   |-> Spread(DefaultTheme.typography.fontSize,
                                       Sub(Sub(c, "typography"), "fontSize")),
                 fontWeight |-> Spread(DefaultTheme.typography.fontWeight,
                                       Sub(Sub(c, "typography"), "fontSize")) ]),
      spacing   |-> Spread(DefaultTheme.spacing, Sub(c, "spacing")),
      borders   |-> Spread(DefaultTheme.borders, Sub(c, "borders")),
      container |-> Spread(DefaultTheme.container, Sub(c, "container")) ]

mergeThemeReplacingGroups(customTheme) ==
  IF Falsy(customTheme) THEN DefaultTheme
  ELSE [g \in DOMAIN DefaultTheme |->
          IF g \in DOMAIN customTheme.val THEN customTheme.val[g]
          ELSE DefaultTheme[g]]

mergeTheme(customTheme) ==
  IF Falsy(customTheme) THEN DefaultTheme
  ELSE LET c == customTheme.val IN
    [ colors |-> Spread(DefaultTheme.colors, Sub(c, "colors")),
      typography |->
        Spread(Spread(DefaultTheme.typography, Sub(c, "typography")),
               [ fontSize   |-> Spread(DefaultTheme.typography.fontSize,
                                       Sub(Sub(c, "typography"), "fontSize")),
                 fontWeight |-> Spread(DefaultTheme.typography.fontWeight,
                                       Sub(Sub(c, "typography"), "fontWeight")) ]),
      spacing   |-> Spread(DefaultTheme.spacing, Sub(c, "spacing")),
      borders   |-> Spread(DefaultTheme.borders, Sub(c, "borders")),
      container |-> Spread(DefaultTheme.container, Sub(c, "container")) ]

createTheme(baseTheme, overrides) ==
  mergeTheme(Obj(Spread(baseTheme, overrides)))

(***************************************************************************)
(* CSS generator                                                           *)
(***************************************************************************)
cssRule(selector, properties) ==
  [selector |-> selector, props |-> properties]

\* theme.g.k, or theme.typography.m.k, as it is interpolated into the CSS text
Leaf(theme, path) ==
  IF Len(path) = 2
    THEN IF path[2] \in DOMAIN theme[path[1]]
           THEN theme[path[1]][path[2]] ELSE "undefined"
    ELSE IF path[3] \in DOMAIN theme[path[1]][path[2]]
           THEN theme[path[1]][path[2]][path[3]] ELSE "undefined"

\* path ?? fallback
Coalesce(theme, path, fallback) ==
  IF path[3] \in DOMAIN theme[path[1]][path[2]]
    THEN theme[path[1]][path[2]][path[3]] ELSE fallback

color(theme, key, fallback) ==
  IF key \in DOMAIN theme.colors THEN theme.colors[key] ELSE fallback

spacing(theme, key, fallback) ==
  IF key \in DOMAIN theme.spacing THEN theme.spacing[key] ELSE fallback

ThemeRules(theme) ==
  <<
    cssRule(".email-container", <<
      <<"max-width", <<Leaf(theme, <<"container", "maxWidth">>)>>>>,
      <<"height", <<"100%">>>>,
      <<"min-height", <<"100vh">>>>,
      <<"margin", <<"0 auto">>>>,
      <<"background-color", <<Leaf(theme, <<"colors", "background">>)>>>>,
      <<"padding", <<Leaf(theme, <<"spacing", "containerPadding">>)>>>>,
      <<"box-sizing", <<"border-box">>>>,
      <<"font-family", <<Leaf(theme, <<"typography", "fontFamily">>)>>>>,
      <<"font-size", <<Leaf(theme, <<"typography", "fontSize", "base">>)>>>>,
      <<"line-height", <<Leaf(theme, <<"typography", "lineHeight">>)>>>>,
      <<"font-weight", <<Leaf(theme, <<"typography", "fontWeight", "normal">>)>>>>,
      <<"text-align", <<"left">>>>
    >>),
    cssRule(".email-heading", <<
      <<"font-size", <<Leaf(theme, <<"typography", "fontSize", "2xl">>)>>>>,
      <<"font-weight", <<Leaf(theme, <<"typography", "fontWeight", "bold">>)>>>>,
      <<"color", <<Leaf(theme, <<"colors", "text">>)>>>>,
      <<"margin-bottom", <<Leaf(theme, <<"spacing", "line">>)>>>>,
      <<"margin-top", <<"0">>>>,
      <<"text-transform", <<"uppercase">>>>,
      <<"line-height", <<"1.25">>>>,
      <<"letter-spacing", <<"-0.01em">>>>
    >>),
    cssRule(".email-subheading", <<
      <<"font-size", <<Leaf(theme, <<"typography", "fontSize", "base">>)>>>>,
      <<"font-weight", <<Leaf(theme, <<"typography", "fontWeight", "bold">>)>>>>,
      <<"color", <<Leaf(theme, <<"colors", "text">>)>>>>,
      <<"margin-bottom", <<Leaf(theme, <<"spacing", "line">>)>>>>,
      <<"margin-top", <<Leaf(theme, <<"spacing", "line">>)>>>>,
      <<"text-transform", <<"uppercase">>>>,
      <<"line-height", <<"1.25">>>>
    >>),
    cssRule(".email-body", <<
      <<"font-size", <<Leaf(theme, <<"typography", "fontSize", "base">>)>>>>,
      <<"color", <<Leaf(theme, <<"colors", "text">>)>>>>,
      <<"line-height", <<Leaf(theme, <<"typography", "lineHeight">>)>>>>,
      <<"margin-bottom", <<Leaf(theme, <<"spacing", "line">>)>>>>,
      <<"letter-spacing", <<"0.01em">>>>
    >>),
    cssRule(".email-text-alt", <<
      <<"font-size", <<Leaf(theme, <<"typography", "fontSize", "sm">>)>>>>,
      <<"color", <<Leaf(theme, <<"colors", "textAlt">>)>>>>,
      <<"line-height", <<Leaf(theme, <<"typography", "lineHeight">>)>>>>
    >>),
    cssRule(".email-text-xs", <<
      <<"font-size", <<Coalesce(theme, <<"typography", "fontSize", "xs">>, "12px")>>>>,
      <<"color", <<Leaf(theme, <<"colors", "textAlt">>)>>>>,
      <<"line-height", <<Leaf(theme, <<"typography", "lineHeight">>)>>>>
    >>),
    cssRule(".email-button", <<
      <<"display", <<"inline-block">>>>,
      <<"padding", <<"0.875rem 1.5rem">>>>,
      <<"background-color", <<Leaf(theme, <<"colors", "backgroundAlt">>)>>>>,
      <<"color", <<Leaf(theme, <<"colors", "text">>)>>>>,
      <<"font-weight", <<Leaf(theme, <<"typography", "fontWeight", "medium">>)>>>>,
      <<"font-size", <<Leaf(theme, <<"typography", "fontSize", "sm">>)>>>>,
      <<"border", <<Leaf(theme, <<"borders", "width">>), " solid ", Leaf(theme, <<"colors", "border">>)>>>>,
      <<"text-decoration", <<"none">>>>,
      <<"text-transform", <<"uppercase">>>>,
      <<"letter-spacing", <<"0.05em">>>>,
      <<"line-height", <<"1">>>>,
      <<"transition", <<"background-color 150ms ease">>>>
    >>),
    cssRule(".email-button:hover", <<
      <<"background-color", <<color(theme, "backgroundSubtle", Leaf(theme, <<"colors", "background">>))>>>>
    >>),
    cssRule(".email-button-primary", <<
      <<"display", <<"inline-block">>>>,
      <<"padding", <<"0.875rem 1.5rem">>>>,
      <<"background-color", <<Leaf(theme, <<"colors", "text">>)>>>>,
      <<"color", <<Leaf(theme, <<"colors", "background">>)>>>>,
      <<"font-weight", <<Leaf(theme, <<"typography", "fontWeight", "medium">>)>>>>,
      <<"font-size", <<Leaf(theme, <<"typography", "fontSize", "sm">>)>>>>,
      <<"border", <<Leaf(theme, <<"borders", "width">>), " solid ", Leaf(theme, <<"colors", "text">>)>>>>,
      <<"text-decoration", <<"none">>>>,
      <<"text-transform", <<"uppercase">>>>,
      <<"letter-spacing", <<"0.05em">>>>,
      <<"line-height", <<"1">>>>,
      <<"transition", <<"background-color 150ms ease">>>>
    >>),
    cssRule(".email-button-primary:hover", <<
      <<"background-color", <<"#333333">>>>
    >>),
    cssRule(".email-button-accent", <<
      <<"display", <<"inline-block">>>>,
      <<"padding", <<"0.875rem 1.5rem">>>>,
      <<"background-color", <<Leaf(theme, <<"colors", "background">>)>>>>,
      <<"color", <<Leaf(theme, <<"colors", "accent">>)>>>>,
      <<"font-weight", <<Leaf(theme, <<"typography", "fontWeight", "medium">>)>>>>,
      <<"font-size", <<Leaf(theme, <<"typography", "fontSize", "sm">>)>>>>,
      <<"border", <<Leaf(theme, <<"borders", "width">>), " solid ", Leaf(theme, <<"colors", "accent">>)>>>>,
      <<"text-decoration", <<"none">>>>,
      <<"text-transform", <<"uppercase">>>>,
      <<"letter-spacing", <<"0.05em">>>>,
      <<"line-height", <<"1">>>>,
      <<"transition", <<"background-color 150ms ease">>>>
    >>),
    cssRule(".email-button-accent:hover", <<
      <<"background-color", <<color(theme, "accentMuted", "#cffafe")>>>>
    >>),
    cssRule(".email-link", <<
      <<"color", <<Leaf(theme, <<"colors", "text">>)>>>>,
      <<"text-decoration", <<"underline">>>>,
      <<"text-decoration-thickness", <<Leaf(theme, <<"borders", "width">>)>>>>,
      <<"text-underline-offset", <<"3px">>>>
    >>),
    cssRule(".email-link-accent", <<
      <<"color", <<Leaf(theme, <<"colors", "accent">>)>>>>,
      <<"text-decoration", <<"underline">>>>,
      <<"text-decoration-thickness", <<Leaf(theme, <<"borders", "width">>)>>>>,
      <<"text-underline-offset", <<"3px">>>>,
      <<"text-decoration-color", <<Leaf(theme, <<"colors", "accent">>)>>>>
    >>),
    cssRule(".email-divider", <<
      <<"position", <<"relative">>>>,
      <<"display", <<"block">>>>,
      <<"margin-top", <<"2rem">>>>,
      <<"margin-bottom", <<"2rem">>>>,
      <<"border", <<"0">>>>,
      <<"height", <<Leaf(theme, <<"typography", "lineHeight">>)>>>>
    >>),
    cssRule(".email-divider::after", <<
      <<"content", <<"''">>>>,
      <<"position", <<"absolute">>>>,
      <<"top", <<"calc(", Leaf(theme, <<"typography", "lineHeight">>), " / 2 - 3px)">>>>,
      <<"left", <<"0">>>>,
      <<"width", <<"100%">>>>,
      <<"height", <<"0">>>>,
      <<"border-top", <<Leaf(theme, <<"borders", "widthDouble">>), " double ", Leaf(theme, <<"colors", "border">>)>>>>
    >>),
    cssRule(".email-divider-subtle", <<
      <<"margin-top", <<"1.5rem">>>>,
      <<"margin-bottom", <<"1.5rem">>>>,
      <<"border", <<"0">>>>,
      <<"height", <<"1px">>>>,
      <<"background-color", <<color(theme, "borderSoft", "#d4d4d4")>>>>
    >>),
    cssRule(".email-divider-accent", <<
      <<"margin-top", <<"1.5rem">>>>,
      <<"margin-bottom", <<"1.5rem">>>>,
      <<"margin-left", <<"0">>>>,
      <<"margin-right", <<"auto">>>>,
      <<"border", <<"0">>>>,
      <<"height", <<"3px">>>>,
      <<"width", <<"60px">>>>,
      <<"background-color", <<Leaf(theme, <<"colors", "accent">>)>>>>
    >>),
    cssRule(".email-section", <<
      <<"margin-bottom", <<Leaf(theme, <<"spacing", "line">>)>>>>
    >>),
    cssRule(".email-section-bordered", <<
      <<"margin-bottom", <<Leaf(theme, <<"spacing", "line">>)>>>>,
      <<"padding", <<Leaf(theme, <<"spacing", "line">>)>>>>,
      <<"border", <<Leaf(theme, <<"borders", "width">>), " solid ", Leaf(theme, <<"colors", "border">>)>>>>
    >>),
    cssRule(".email-section-hero", <<
      <<"padding", <<"2.5rem 0">>>>,
      <<"text-align", <<"left">>>>,
      <<"margin-bottom", <<"2rem">>>>
    >>),
    cssRule(".email-image-hero", <<
      <<"width", <<"100%">>>>,
      <<"max-width", <<"100%">>>>,
      <<"height", <<"auto">>>>,
      <<"display", <<"block">>>>,
      <<"margin-bottom", <<Leaf(theme, <<"spacing", "line">>)>>>>,
      <<"border", <<Leaf(theme, <<"borders", "width">>), " solid ", Leaf(theme, <<"colors", "border">>)>>>>
    >>),
    cssRule(".email-image-inline", <<
      <<"width", <<"150px">>>>,
      <<"height", <<"150px">>>>,
      <<"object-fit", <<"cover">>>>,
      <<"display", <<"block">>>>,
      <<"border", <<Leaf(theme, <<"borders", "width">>), " solid ", Leaf(theme, <<"colors", "border">>)>>>>
    >>),
    cssRule(".email-section-image-left", <<
      <<"width", <<"100%">>>>,
      <<"margin-bottom", <<Leaf(theme, <<"spacing", "line">>)>>>>
    >>),
    cssRule(".email-section-image-right", <<
      <<"width", <<"100%">>>>,
      <<"margin-bottom", <<Leaf(theme, <<"spacing", "line">>)>>>>
    >>),
    cssRule(".email-image-cell", <<
      <<"width", <<"150px">>>>,
      <<"vertical-align", <<"top">>>>,
      <<"padding-right", <<Leaf(theme, <<"spacing", "line">>)>>>>
    >>),
    cssRule(".email-section-image-right .email-image-cell", <<
      <<"padding-right", <<"0">>>>,
      <<"padding-left", <<Leaf(theme, <<"spacing", "line">>)>>>>
    >>),
    cssRule(".email-content-cell", <<
      <<"vertical-align", <<"top">>>>
    >>),
    cssRule(".email-footer", <<
      <<"margin-top", <<Leaf(theme, <<"spacing", "line">>)>>>>,
      <<"padding-top", <<Leaf(theme, <<"spacing", "line">>)>>>>,
      <<"border-top", <<Leaf(theme, <<"borders", "widthThick">>), " double ", Leaf(theme, <<"colors", "border">>)>>>>,
      <<"font-size", <<Leaf(theme, <<"typography", "fontSize", "sm">>)>>>>,
      <<"color", <<Leaf(theme, <<"colors", "textAlt">>)>>>>
    >>),
    cssRule(".email-code", <<
      <<"font-family", <<Leaf(theme, <<"typography", "fontFamily">>)>>>>,
      <<"font-weight", <<Leaf(theme, <<"typography", "fontWeight", "medium">>)>>>>,
      <<"background-color", <<Leaf(theme, <<"colors", "backgroundAlt">>)>>>>,
      <<"padding", <<"0.25rem 0.5rem">>>>,
      <<"border", <<"1px solid ", color(theme, "borderSoft", "#d4d4d4")>>>>
    >>),
    cssRule(".email-code-lg", <<
      <<"font-family", <<Leaf(theme, <<"typography", "fontFamily">>)>>>>,
      <<"font-weight", <<Leaf(theme, <<"typography", "fontWeight", "bold">>)>>>>,
      <<"background-color", <<Leaf(theme, <<"colors", "backgroundAlt">>)>>>>,
      <<"padding", <<"0.5rem 0.75rem">>>>,
      <<"font-size", <<"24px">>>>,
      <<"letter-spacing", <<"0.15em">>>>,
      <<"border", <<"1px solid ", color(theme, "borderSoft", "#d4d4d4")>>>>
    >>),
    cssRule(".email-box", <<
      <<"padding", <<Leaf(theme, <<"spacing", "line">>)>>>>,
      <<"border", <<Leaf(theme, <<"borders", "width">>), " solid ", Leaf(theme, <<"colors", "border">>)>>>>,
      <<"margin-bottom", <<Leaf(theme, <<"spacing", "line">>)>>>>
    >>),
    cssRule(".email-box-alt", <<
      <<"padding", <<Leaf(theme, <<"spacing", "line">>)>>>>,
      <<"background-color", <<Leaf(theme, <<"colors", "backgroundAlt">>)>>>>,
      <<"margin-bottom", <<Leaf(theme, <<"spacing", "line">>)>>>>
    >>),
    cssRule(".email-box-highlight", <<
      <<"padding", <<"1.5rem">>>>,
      <<"padding-left", <<"1.25rem">>>>,
      <<"border-left", <<"4px solid ", Leaf(theme, <<"colors", "accent">>)>>>>,
      <<"background-color", <<color(theme, "backgroundSubtle", "#fafafa")>>>>,
      <<"margin-bottom", <<"1.5rem">>>>
    >>),
    cssRule(".email-box-success", <<
      <<"padding", <<"1.5rem">>>>,
      <<"background-color", <<"#dcfce7">>>>,
      <<"border-left", <<"4px solid #15803d">>>>,
      <<"margin-bottom", <<"1.5rem">>>>
    >>),
    cssRule(".email-box-warning", <<
      <<"padding", <<"1.5rem">>>>,
      <<"background-color", <<"#fef3c7">>>>,
      <<"border-left", <<"4px solid #a16207">>>>,
      <<"margin-bottom", <<"1.5rem">>>>
    >>),
    cssRule(".email-box-error", <<
      <<"padding", <<"1.5rem">>>>,
      <<"background-color", <<"#fee2e2">>>>,
      <<"border-left", <<"4px solid #b91c1c">>>>,
      <<"margin-bottom", <<"1.5rem">>>>
    >>),
    cssRule(".email-box-info", <<
      <<"padding", <<"1.5rem">>>>,
      <<"background-color", <<"#e0f2fe">>>>,
      <<"border-left", <<"4px solid #0369a1">>>>,
      <<"margin-bottom", <<"1.5rem">>>>
    >>),
    cssRule(".email-spacing-none", <<
      <<"margin-top", <<"0">>>>
    >>),
    cssRule(".email-spacing-xs", <<
      <<"margin-top", <<spacing(theme, "xs", "0.5rem")>>>>
    >>),
    cssRule(".email-spacing-sm", <<
      <<"margin-top", <<spacing(theme, "sm", "0.75rem")>>>>
    >>),
    cssRule(".email-spacing-md", <<
      <<"margin-top", <<spacing(theme, "md", "1.5rem")>>>>
    >>),
    cssRule(".email-spacing-lg", <<
      <<"margin-top", <<spacing(theme, "lg", "2rem")>>>>
    >>),
    cssRule(".email-text-center", <<
      <<"text-align", <<"center">>>>
    >>),
    cssRule(".email-logo", <<
      <<"max-width", <<"150px">>>>,
      <<"height", <<"auto">>>>,
      <<"margin-bottom", <<"1rem">>>>
    >>),
    cssRule(".email-avatar", <<
      <<"width", <<"64px">>>>,
      <<"height", <<"64px">>>>,
      <<"border-radius", <<"50%">>>>,
      <<"margin-bottom", <<"1rem">>>>
    >>)
  >>

ThemeGroups == {"colors", "typography", "spacing", "borders", "container"}

\* the string `\n${rules.join("\n")}\n`
Css(rules) == [type |-> "string", css |-> rules]

\* the class names of EmailClasses
EmailClasses ==
  { "email-container", "email-section", "email-section-bordered",
    "email-section-hero", "email-box", "email-box-alt",
    "email-box-highlight", "email-box-success", "email-box-warning",
    "email-box-error", "email-box-info", "email-heading", "email-subheading",
    "email-body", "email-text-alt", "email-text-xs", "email-code",
    "email-code-lg", "email-button", "email-button-primary",
    "email-button-accent", "email-link", "email-link-accent",
    "email-divider", "email-divider-subtle", "email-divider-accent",
    "email-footer", "email-spacing-none", "email-spacing-xs",
    "email-spacing-sm", "email-spacing-md", "email-spacing-lg",
    "email-image-hero", "email-image-inline", "email-image-cell",
    "email-content-cell", "email-section-image-left",
    "email-section-image-right" }

\* generateThemedCSS that leaves the rule of the footer out
generateThemedCSSWithoutFooter(theme) ==
  IF Falsy(theme) \/ TypeOf(theme) # "object"
    THEN Threw(Err(Msg("Invalid theme configuration: theme must be an object")))
  ELSE IF \E g \in ThemeGroups : g \notin DOMAIN theme.val
    THEN Threw(Err(Msg("Invalid theme configuration: missing required theme properties")))
  ELSE IF "fontSize" \notin DOMAIN theme.val.typography
    THEN Threw(Err(Msg("Cannot read properties of undefined (reading 'base')")))
  ELSE IF "fontWeight" \notin DOMAIN theme.val.typography
    THEN Threw(Err(Msg("Cannot read properties of undefined (reading 'normal')")))
  ELSE Returned(Css(SelectSeq(ThemeRules(theme.val),
                              LAMBDA r : r.selector # ".email-footer")))

\* generateThemedCSS whose second guard tests the colors group only
generateThemedCSSColorsOnly(theme) ==
  IF Falsy(theme) \/ TypeOf(theme) # "object"
    THEN Threw(Err(Msg("Invalid theme configuration: theme must be an object")))
  ELSE IF "colors" \notin DOMAIN theme.val
    THEN Threw(Err(Msg("Invalid theme configuration: missing required theme properties")))
  ELSE IF \E g \in ThemeGroups : g \notin DOMAIN theme.val
    THEN Threw(Err(Msg("Cannot read properties of undefined")))
  ELSE IF "fontSize" \notin DOMAIN theme.val.typography
    THEN Threw(Err(Msg("Cannot read properties of undefined (reading 'base')")))
  ELSE IF "fontWeight" \notin DOMAIN theme.val.typography
    THEN Threw(Err(Msg("Cannot read properties of undefined (reading 'normal')")))
  ELSE Returned(Css(ThemeRules(theme.val)))

generateThemedCSS(theme) ==
  IF Falsy(theme) \/ TypeOf(theme) # "object"
    THEN Threw(Err(Msg("Invalid theme configuration: theme must be an object")))
  ELSE IF \E g \in ThemeGroups : g \notin DOMAIN theme.val
    THEN Threw(Err(Msg("Invalid theme configuration: missing required theme properties")))
  ELSE IF "fontSize" \notin DOMAIN theme.val.typography
    THEN Threw(Err(Msg("Cannot read properties of undefined (reading 'base')")))
  ELSE IF "fontWeight" \notin DOMAIN theme.val.typography
    THEN Threw(Err(Msg("Cannot read properties of undefined (reading 'normal')")))
  ELSE Returned(Css(ThemeRules(theme.val)))

(***************************************************************************)
(* Bounded inputs of the theme functions                                   *)
(***************************************************************************)
NumCustomVals == 1

MaxGroups == 2

ValPool == <<"#ff0000", "800px", "#00ff00", "2.25rem">>

CustomVals == {ValPool[i] : i \in 1..NumCustomVals}

\* every object that defines a subset of keys, with values in vals
PartialObjs(keys, vals) == UNION {[s -> vals] : s \in SUBSET keys}

GroupOverrides(g) ==
  CASE g = "colors"    -> PartialObjs({"text", "accent"}, CustomVals)
    [] g = "spacing"   -> PartialObjs({"line"}, CustomVals)
    [] g = "borders"   -> PartialObjs({"width"}, CustomVals)
    [] g = "container" -> PartialObjs({"maxWidth"}, CustomVals)
    [] g = "typography" ->
         { Spread(a, Spread(b, c)) :
             a \in PartialObjs({"fontFamily"}, CustomVals),
             b \in {EmptyObj} \cup
                   {[fontSize |-> m] : m \in PartialObjs({"base"}, CustomVals)},
             c \in {EmptyObj} \cup
                   {[fontWeight |-> m] : m \in PartialObjs({"bold"}, CustomVals)} }

\* partial theme overrides (ThemeConfig values) naming at most MaxGroups
\* groups: per group either nothing or one of its overrides
ThemeOverrides ==
  LET order == <<"colors", "typography", "spacing", "borders", "container">>
      Opt(g) == {<<>>} \cup {<<o>> : o \in GroupOverrides(g)}
      named(x) == {i \in DOMAIN order : x[i] # <<>>}
      picks == { x \in Opt(order[1]) \X Opt(order[2]) \X Opt(order[3])
                          \X Opt(order[4]) \X Opt(order[5]) :
                   Cardinality(named(x)) <= MaxGroups }
  IN { [g \in {order[i] : i \in named(x)} |->
          x[CHOOSE i \in DOMAIN order : order[i] = g][1]] : x \in picks }

\* objects that hold, for some of the five groups, the default group or {}
GroupwiseObjs ==
  UNION { { o \in [S -> {DefaultTheme[g] : g \in S} \cup {EmptyObj}] :
              \A g \in S : o[g] \in {DefaultTheme[g], EmptyObj} } :
          S \in SUBSET ThemeGroups }

ThemeArgs ==
  {Undefined, Null, Str("not an object"), Str("")}
    \cup {Obj(P) : P \in ThemeOverrides}
    \cup {Obj(o) : o \in GroupwiseObjs}

BaseThemes == {DefaultTheme, DarkTheme, ProfessionalTheme, ColorfulTheme}

(***************************************************************************)
(* Leaves of a theme object: colors.text, typography.fontSize.base, ...    *)
(***************************************************************************)
NestedMaps == {"fontSize", "fontWeight"}

LeafPaths(o) ==
  UNION { UNION { IF g = "typography" /\ k \in NestedMaps
                    THEN {<<g, k, j>> : j \in DOMAIN o[g][k]}
                    ELSE {<<g, k>>} :
                  k \in DOMAIN o[g] } :
          g \in DOMAIN o }

LeafAt(o, p) == IF Len(p) = 2 THEN o[p[1]][p[2]] ELSE o[p[1]][p[2]][p[3]]

HasLeaf(o, p) == p \in LeafPaths(o)

\* error instanceof Error ? error.message : "Unknown error"
ErrorString(error) ==
  IF error.type = "error" THEN error.message ELSE Msg("Unknown error")

(***************************************************************************)
(* File system seen through Deno.readDir and Deno.readTextFile.  A name is *)
(* the sequence of its dot-separated segments, a path a sequence of names. *)
(***************************************************************************)
N(s) == <<s>>

Hbs(s) == <<s, "hbs">>

File(name) == [name |-> name, isFile |-> TRUE, isDirectory |-> FALSE]

Dir(name) == [name |-> name, isFile |-> FALSE, isDirectory |-> TRUE]

NotFound == Err([text |-> "No such file or directory", notFound |-> TRUE])

PermissionDenied == Err([text |-> "Permission denied", notFound |-> FALSE])

\* a loader that does not tell a missing directory from other failures
IsNotFoundNever(error) == FALSE

\* error instanceof Deno.errors.NotFound
IsNotFound(error) ==
  error.type = "error" /\ "notFound" \in DOMAIN error.message
                       /\ error.message.notFound

\* template sources
SrcHello == "<h1>Hello {{name}}</h1>"

SrcHi == "Hi {{name}}!"

SrcWithHeader == "{{> header}}<p>{{name}}</p>"

SrcMalformed == "{{#if name}"

SrcEmpty == ""

SrcBuiltin == "<p>Built-in welcome, {{name}}</p>"

SrcHeader == "<header>{{title}}</header>"

SrcLayout == "<html>{{{emailStyles}}}{{{body}}}</html>"

SrcLayoutAlt == "<html lang={{lang}}>{{{body}}}</html>"

EmailsDir == <<N("emails")>>

PlainDir == <<N("plain")>>

BrokenDir == <<N("broken")>>

BlankDir == <<N("blank")>>

AltDir == <<N("alt")>>

MissingDir == <<N("nonexistent")>>

DirEntries ==
  (EmailsDir :> << Dir(N("partials")), File(Hbs("welcome")), Dir(N("layouts")),
                   Dir(N("templates")), File(Hbs("password-reset")) >>)
  @@ (Append(EmailsDir, N("partials")) :> << File(Hbs("header")) >>)
  @@ (Append(EmailsDir, N("layouts")) :> << File(Hbs("main")) >>)
  @@ (Append(EmailsDir, N("templates")) :>
        << File(Hbs("welcome")), File(<<"digest", "weekly", "hbs">>) >>)
  @@ (PlainDir :> << File(Hbs("welcome")), File(N("README")) >>)
  @@ (BrokenDir :> << File(Hbs("greeting")), File(Hbs("locked")),
                      File(Hbs("welcome")) >>)
  @@ (BlankDir :> << Dir(N("layouts")) >>)
  @@ (Append(BlankDir, N("layouts")) :> << File(Hbs("main")) >>)
  @@ (AltDir :> << Dir(N("layouts")), File(Hbs("greeting")) >>)
  @@ (Append(AltDir, N("layouts")) :> << File(Hbs("main")), File(Hbs("plain")) >>)

FileContents ==
  (Append(EmailsDir, Hbs("welcome")) :> SrcWithHeader)
  @@ (Append(EmailsDir, Hbs("password-reset")) :> SrcHello)
  @@ (Append(Append(EmailsDir, N("partials")), Hbs("header")) :> SrcHeader)
  @@ (Append(Append(EmailsDir, N("layouts")), Hbs("main")) :> SrcLayout)
  @@ (Append(Append(EmailsDir, N("templates")), Hbs("welcome")) :> SrcHi)
  @@ (Append(Append(EmailsDir, N("templates")), <<"digest", "weekly", "hbs">>)
        :> SrcHello)
  @@ (Append(PlainDir, Hbs("welcome")) :> SrcHello)
  @@ (Append(PlainDir, N("README")) :> SrcHi)
  @@ (Append(BrokenDir, Hbs("greeting")) :> SrcHi)
  @@ (Append(BrokenDir, Hbs("welcome")) :> SrcHi)
  @@ (Append(Append(BlankDir, N("layouts")), Hbs("main")) :> SrcEmpty)
  @@ (Append(AltDir, Hbs("greeting")) :> SrcHello)
  @@ (Append(Append(AltDir, N("layouts")), Hbs("main")) :> SrcLayoutAlt)
  @@ (Append(Append(AltDir, N("layouts")), Hbs("plain")) :> SrcHeader)

UnreadableFiles == { Append(BrokenDir, Hbs("locked")) }

\* Deno.readDir(path), all entries
ReadDir(path) ==
  IF path \in DOMAIN DirEntries
    THEN [ok |-> TRUE, entries |-> DirEntries[path]]
    ELSE [ok |-> FALSE, error |-> NotFound]

\* Deno.readTextFile(path)
ReadTextFile(path) ==
  IF path \in UnreadableFiles THEN [ok |-> FALSE, error |-> PermissionDenied]
  ELSE IF path \in DOMAIN FileContents
    THEN [ok |-> TRUE, content |-> FileContents[path]]
    ELSE [ok |-> FALSE, error |-> NotFound]

\* entry.name.split(".").slice(0, -1).join(".")
Stem(name) ==
  IF Len(name) <= 1 THEN N("") ELSE SubSeq(name, 1, Len(name) - 1)

(***************************************************************************)
(* Handlebars: the process-wide partial registry and template rendering    *)
(***************************************************************************)
\* the key of a partial: `${prefix}${stem}`
PartialKey(prefix, stem) == [prefix |-> prefix, name |-> stem]

MainLayoutKey == PartialKey("layouts-", N("main"))

HeaderKey == PartialKey("", N("header"))

\* the output of a template: determined by its source, the data, and the
\* partials its source refers to
Html(src, data, parts) ==
  [type |-> "string", tpl |-> src, data |-> data, partials |-> parts]

\* Handlebars.compile(src)(data) with the partials registered at that time
Render(src, data, parts) ==
  IF src = SrcMalformed
    THEN Threw(Err(Msg("Parse error")))
  ELSE IF src = SrcEmpty
    THEN Returned(Str(""))
  ELSE IF src = SrcWithHeader
    THEN IF HeaderKey \in DOMAIN parts
           THEN Returned(Html(src, data, [p \in {HeaderKey} |-> parts[p]]))
           ELSE Threw(Err([text |-> "The partial could not be found",
                           partial |-> HeaderKey]))
  ELSE Returned(Html(src, data, EmptyObj))

(***************************************************************************)
(* Courier: pure parts of the methods                                      *)
(***************************************************************************)
\* Map.prototype.set
MapSet(m, k, v) == [x \in (DOMAIN m) \cup {k} |-> IF x = k THEN v ELSE m[x]]

\* `${name} <${email}>`
Formatted(name, email) == [type |-> "string", name |-> name, email |-> email]

\* formatAddress that drops the name of a {name, email} pair
formatAddressEmailOnly(address) ==
  IF address.type = "string" THEN Returned(address)
  ELSE IF address.type \in {"undefined", "null"}
    THEN Threw(Err(Msg("Cannot read properties of undefined (reading 'name')")))
  ELSE IF address.type = "object"
    THEN Returned(Get(address.val, "email"))
  ELSE Returned(Undefined)

formatAddress(address) ==
  IF address.type = "string" THEN Returned(address)
  ELSE IF address.type \in {"undefined", "null"}
    THEN Threw(Err(Msg("Cannot read properties of undefined (reading 'name')")))
  ELSE IF address.type = "object"
    THEN IF ~Falsy(Get(address.val, "name"))
           THEN Returned(Formatted(address.val.name, Get(address.val, "email")))
           ELSE Returned(Get(address.val, "email"))
  ELSE Returned(Undefined)

formatAddresses(addresses) ==
  IF addresses.type = "array"
    THEN LET each == [k \in 1..Len(addresses.items) |->
                        formatAddress(addresses.items[k])]
         IN IF \E k \in 1..Len(each) : each[k].kind = "throw"
              THEN each[CHOOSE k \in 1..Len(each) :
                          /\ each[k].kind = "throw"
                          /\ \A h \in 1..(k - 1) : each[h].kind # "throw"]
              ELSE Returned(Arr([k \in 1..Len(each) |-> each[k].value]))
    ELSE formatAddress(addresses)

\* a registry in which the first registration of a name stays
\* a registry that holds one entry: registering evicts what was there
registerTemplateEvicting(tpls, name, template) == MapSet(EmptyObj, name, template)

registerTemplateKeepingFirst(tpls, name, template) ==
  IF name \in DOMAIN tpls THEN tpls ELSE MapSet(tpls, name, template)

\* this.templates after registerTemplate(name, template); the compiled
\* template is represented by its source
registerTemplate(tpls, name, template) == MapSet(tpls, name, template)

CurrentYear == 2026

\* the layoutData literal with the stylesheet defaulted like its neighbours
LayoutDataKeepingCallerStyles(data, bodyContent, emailStyles) ==
  Spread(data,
    [ body        |-> bodyContent,
      lang        |-> Or(Get(data, "lang"), Str("en")),
      year        |-> Or(Get(data, "year"), Num(CurrentYear)),
      companyName |-> Or(Get(data, "companyName"), Str("Your Company")),
      emailTitle  |-> Or(Or(Get(data, "emailTitle"), Get(data, "subject")),
                         Str("Email")),
      emailStyles |-> Or(Get(data, "emailStyles"), emailStyles) ])

\* the layoutData object literal, the stylesheet already generated
LayoutData(data, bodyContent, emailStyles) ==
  Spread(data,
    [ body        |-> bodyContent,
      lang        |-> Or(Get(data, "lang"), Str("en")),
      year        |-> Or(Get(data, "year"), Num(CurrentYear)),
      companyName |-> Or(Get(data, "companyName"), Str("Your Company")),
      emailTitle  |-> Or(Or(Get(data, "emailTitle"), Get(data, "subject")),
                         Str("Email")),
      emailStyles |-> emailStyles ])

TemplateNotFound(templateName) ==
  Err([text |-> "Template not found", name |-> templateName])

\* renderTemplate that wraps the output in a built-in layout when no main
\* layout is registered
renderRegisteredAlwaysWrapping(tpls, parts, th, templateName, data) ==
  LET bodyContent == Render(tpls[templateName], data, parts)
      mainLayout == IF MainLayoutKey \in DOMAIN parts /\ parts[MainLayoutKey] # ""
                      THEN parts[MainLayoutKey] ELSE SrcLayout
  IN
  IF bodyContent.kind = "throw"
    THEN [outcome |-> bodyContent, body |-> <<bodyContent>>, layout |-> <<>>]
  ELSE LET css == generateThemedCSS(Obj(th)) IN
      IF css.kind = "throw"
        THEN [outcome |-> css, body |-> <<bodyContent>>, layout |-> <<>>]
        ELSE LET layoutData == LayoutData(data, bodyContent.value, css.value)
             IN [outcome |-> Render(mainLayout, layoutData, parts),
                 body |-> <<bodyContent>>, layout |-> <<layoutData>>]

\* what renderTemplate does once the template is found: the template is
\* applied to the data, and its output wrapped in the main layout if
\* Handlebars.partials holds one.  body is what the named template returned
\* or threw, layout the data handed to the main layout.
renderRegistered(tpls, parts, th, templateName, data) ==
  LET bodyContent == Render(tpls[templateName], data, parts) IN
  IF bodyContent.kind = "throw"
    THEN [outcome |-> bodyContent, body |-> <<bodyContent>>, layout |-> <<>>]
  ELSE IF MainLayoutKey \in DOMAIN parts /\ parts[MainLayoutKey] # ""
    THEN LET css == generateThemedCSS(Obj(th)) IN
      IF css.kind = "throw"
        THEN [outcome |-> css, body |-> <<bodyContent>>, layout |-> <<>>]
        ELSE LET layoutData == LayoutData(data, bodyContent.value, css.value)
             IN [outcome |-> Render(parts[MainLayoutKey], layoutData, parts),
                 body |-> <<bodyContent>>, layout |-> <<layoutData>>]
    ELSE [outcome |-> bodyContent, body |-> <<bodyContent>>, layout |-> <<>>]

\* renderTemplate without the lookup guard: the missing template is called
renderTemplateUnguarded(tpls, parts, th, templateName, data) ==
  IF templateName \notin DOMAIN tpls
    THEN [outcome |-> Threw(Err(Msg("template is not a function"))),
          body |-> <<>>, layout |-> <<>>]
    ELSE renderRegistered(tpls, parts, th, templateName, data)

\* renderTemplate(templateName, data) on an instance with registry tpls and
\* theme th, parts being Handlebars.partials
renderTemplate(tpls, parts, th, templateName, data) ==
  IF templateName \notin DOMAIN tpls
    THEN [outcome |-> Threw(TemplateNotFound(templateName)),
          body |-> <<>>, layout |-> <<>>]
    ELSE renderRegistered(tpls, parts, th, templateName, data)

\* the catch blocks with the error dropped from the result
FailureWithoutError(error) == [success |-> FALSE]

\* the result object of the catch blocks of send and sendWithTemplate
Failure(error) == [success |-> FALSE, error |-> ErrorString(error)]

\* a sender resolution in which the configured default comes first
fromAddressPreferringDefault(cfg, message) ==
  Or(Or(Get(cfg, "defaultFrom"), Get(message, "from")), Get(cfg.smtp, "user"))

\* message.from || this.config.defaultFrom || this.config.smtp.user
fromAddress(cfg, message) ==
  Or(Or(Get(message, "from"), Get(cfg, "defaultFrom")), Get(cfg.smtp, "user"))

\* send(message); delivery is what transporter.sendMail does when it is
\* called.  sent lists the mailOptions handed to sendMail.
send(cfg, message, delivery) ==
  LET from    == formatAddress(fromAddress(cfg, message))
      to      == formatAddresses(Get(message, "to"))
      cc      == formatAddresses(Get(message, "cc"))
      bcc     == formatAddresses(Get(message, "bcc"))
      replyTo == formatAddress(Get(message, "replyTo"))
      hasCc   == ~Falsy(Get(message, "cc"))
      hasBcc  == ~Falsy(Get(message, "bcc"))
      hasReplyTo == ~Falsy(Get(message, "replyTo"))
      caught(r) == [outcome |-> Resolved(Failure(r.error)), sent |-> <<>>]
  IN
  IF from.kind = "throw" THEN caught(from)
  ELSE IF to.kind = "throw" THEN caught(to)
  ELSE IF hasCc /\ cc.kind = "throw" THEN caught(cc)
  ELSE IF hasBcc /\ bcc.kind = "throw" THEN caught(bcc)
  ELSE IF hasReplyTo /\ replyTo.kind = "throw" THEN caught(replyTo)
  ELSE
    LET mailOptions ==
          Spread(Spread(Spread(Spread(Spread(
            [from |-> from.value, to |-> to.value,
             subject |-> Get(message, "subject")],
            IF hasCc THEN [cc |-> cc.value] ELSE EmptyObj),
            IF hasBcc THEN [bcc |-> bcc.value] ELSE EmptyObj),
            IF hasReplyTo THEN [replyTo |-> replyTo.value] ELSE EmptyObj),
            IF ~Falsy(Get(message, "text")) THEN [text |-> message.text]
                                            ELSE EmptyObj),
            IF ~Falsy(Get(message, "html")) THEN [html |-> message.html]
                                            ELSE EmptyObj)
    IN IF delivery.kind = "resolve"
         THEN [outcome |-> Resolved([success |-> TRUE,
                                     messageId |-> Get(delivery.value, "messageId")]),
               sent |-> <<mailOptions>>]
         ELSE [outcome |-> Resolved(Failure(delivery.error)),
               sent |-> <<mailOptions>>]

\* sendWithTemplate without its try / catch: a render failure escapes
sendWithTemplateUncaught(tpls, parts, th, cfg, templateName, data, message, delivery) ==
  LET html == renderTemplate(tpls, parts, th, templateName, data).outcome IN
  IF html.kind = "throw"
    THEN [outcome |-> Rejected(html.error), sent |-> <<>>]
    ELSE send(cfg, Spread(message, [html |-> html.value]), delivery)

\* sendWithTemplate(templateName, data, message)
sendWithTemplate(tpls, parts, th, cfg, templateName, data, message, delivery) ==
  LET html == renderTemplate(tpls, parts, th, templateName, data).outcome IN
  IF html.kind = "throw"
    THEN [outcome |-> Resolved(Failure(html.error)), sent |-> <<>>]
    ELSE send(cfg, Spread(message, [html |-> html.value]), delivery)

\* verify without its try / catch: the failure of the transport escapes
verifyUncaught(check) ==
  IF check.kind = "resolve" THEN Resolved(TRUE) ELSE Rejected(check.error)

\* verify(); check is what transporter.verify does
verify(check) ==
  IF check.kind = "resolve" THEN Resolved(TRUE) ELSE Resolved(FALSE)

(***************************************************************************)
(* State                                                                   *)
(***************************************************************************)
VARIABLES
  themeArg,    \* the argument handed to the theme functions
  baseTheme,   \* the base theme handed to createTheme
  themeCall,   \* the last call of a theme function and its outcome
  snapshot,    \* the first stylesheet generated for themeArg, and how often
               \* it was generated since (history, not program state)
  status,      \* per instance: "none", "initializing", "ready" or "failed"
  config,      \* per instance: this.config
  templates,   \* per instance: this.templates, name -> compiled template
  theme,       \* per instance: this.theme
  partials,    \* Handlebars.partials, one registry for the whole process
  load,        \* per instance: the loadTemplatesFromDirectory call in flight
  lastReg,     \* per instance: name -> source of the latest successful
               \* registration (history, not program state)
  call,        \* the last completed call on an instance and its outcome
  input        \* what the calls are made with: message, data, and what the
               \* transport does when it is called

themeVars == <<themeArg, baseTheme, themeCall, snapshot, input>>

courierVars == <<status, config, templates, theme, partials, load, lastReg, call>>

vars == <<themeArg, baseTheme, themeCall, snapshot, status, config, templates, theme,
          partials, load, lastReg, call, input>>

Instances == {"A", "B"}

Idle == [pc |-> "idle"]

NoCall == [op |-> "none"]

InitCourier ==
  /\ status = [i \in Instances |-> "none"]
  /\ config = [i \in Instances |-> EmptyObj]
  /\ templates = [i \in Instances |-> EmptyObj]
  /\ theme = [i \in Instances |-> EmptyObj]
  /\ partials = EmptyObj
  /\ load = [i \in Instances |-> Idle]
  /\ lastReg = [i \in Instances |-> EmptyObj]
  /\ call = NoCall

NoSnapshot == [calls |-> 0, between |-> FALSE]

InitThemeIdle ==
  /\ themeArg = Undefined
  /\ baseTheme = DefaultTheme
  /\ themeCall = NoCall
  /\ snapshot = NoSnapshot

(***************************************************************************)
(* Theme functions, called on the chosen arguments                         *)
(***************************************************************************)
CallMergeTheme ==
  /\ themeArg.type \in {"undefined", "null", "object"}
  /\ themeCall' = [op |-> "mergeTheme", arg |-> themeArg,
                   result |-> mergeTheme(themeArg)]
  /\ UNCHANGED <<themeArg, baseTheme, snapshot, input, courierVars>>

CallCreateTheme ==
  /\ themeArg.type = "object"
  /\ themeCall' = [op |-> "createTheme", base |-> baseTheme,
                   overrides |-> themeArg.val,
                   result |-> createTheme(baseTheme, themeArg.val)]
  /\ UNCHANGED <<themeArg, baseTheme, snapshot, input, courierVars>>

CallGenerateThemedCSS ==
  /\ themeCall' = [op |-> "generateThemedCSS", arg |-> themeArg,
                   outcome |-> generateThemedCSS(themeArg)]
  /\ UNCHANGED <<themeArg, baseTheme, snapshot, input, courierVars>>

\* the history of the stylesheets generated for themeArg after a call of
\* generateThemedCSS(mergeTheme(X)) that gave outcome r
Snapped(X, r) ==
  IF X # themeArg
    THEN [snapshot EXCEPT !.between = (@ \/ snapshot.calls = 1)]
  ELSE IF snapshot.calls = 0
    THEN [calls |-> 1, between |-> FALSE, first |-> r]
  ELSE [snapshot EXCEPT !.calls = 2]

\* generateThemedCSS building on a rules array that outlives the call: the
\* rules of the previous call are still in it
CallGenerateMergedAccumulating(X) ==
  LET fresh == generateThemedCSS(Obj(mergeTheme(X)))
      r == IF themeCall.op = "generateMerged" /\ fresh.kind = "return"
                                             /\ themeCall.outcome.kind = "return"
             THEN Returned(Css(themeCall.outcome.value.css \o fresh.value.css))
             ELSE fresh
  IN
  /\ X.type \in {"undefined", "null", "object"}
  /\ themeCall' = [op |-> "generateMerged", arg |-> X, outcome |-> r]
  /\ snapshot' = Snapped(X, r)
  /\ UNCHANGED <<themeArg, baseTheme, input, courierVars>>

\* generateThemedCSS(mergeTheme(X))
CallGenerateMerged(X) ==
  LET r == generateThemedCSS(Obj(mergeTheme(X))) IN
  /\ X.type \in {"undefined", "null", "object"}
  /\ themeCall' = [op |-> "generateMerged", arg |-> X, outcome |-> r]
  /\ snapshot' = Snapped(X, r)
  /\ UNCHANGED <<themeArg, baseTheme, input, courierVars>>

(***************************************************************************)
(* Courier: construction and the directory loader                          *)
(***************************************************************************)
\* a directory load that does not wait for the partials: it goes on to the
\* layouts at once
StartLoadSkippingPartials(dirPath, owner) ==
  [pc |-> "layouts", dir |-> dirPath, k |-> 1, j |-> 1, owner |-> owner]

StartLoad(dirPath, owner) ==
  [pc |-> "partials", dir |-> dirPath, k |-> 1, j |-> 1, owner |-> owner]

\* initialize without the await: the instance is returned while the
\* directory load is still in flight
InitializeWithoutAwait(i, cfg) ==
  /\ status[i] = "none"
  /\ config' = [config EXCEPT ![i] = cfg]
  /\ templates' = [templates EXCEPT ![i] = EmptyObj]
  /\ theme' = [theme EXCEPT ![i] = mergeTheme(Get(cfg, "theme"))]
  /\ status' = [status EXCEPT ![i] = "ready"]
  /\ load' = IF "templatesDir" \in DOMAIN cfg
               THEN [load EXCEPT ![i] = StartLoad(cfg.templatesDir, "call")]
               ELSE load
  /\ call' = [op |-> "initialize", inst |-> i, outcome |-> Resolved(Str(i))]
  /\ UNCHANGED <<partials, lastReg, themeVars>>

\* Courier.initialize(cfg): the constructor, then the directory load if any
Initialize(i, cfg) ==
  /\ status[i] = "none"
  /\ config' = [config EXCEPT ![i] = cfg]
  /\ templates' = [templates EXCEPT ![i] = EmptyObj]
  /\ theme' = [theme EXCEPT ![i] = mergeTheme(Get(cfg, "theme"))]
  /\ IF "templatesDir" \in DOMAIN cfg
       THEN /\ status' = [status EXCEPT ![i] = "initializing"]
            /\ load' = [load EXCEPT ![i] = StartLoad(cfg.templatesDir, "initialize")]
            /\ call' = call
       ELSE /\ status' = [status EXCEPT ![i] = "ready"]
            /\ load' = load
            /\ call' = [op |-> "initialize", inst |-> i,
                        outcome |-> Resolved(Str(i))]
  /\ UNCHANGED <<partials, lastReg, themeVars>>

\* loadTemplatesFromDirectory that sets the instance's theme back to the
\* default theme
LoadTemplatesFromDirectoryResettingTheme(i, dirPath) ==
  /\ status[i] = "ready"
  /\ load[i].pc = "idle"
  /\ load' = [load EXCEPT ![i] = StartLoad(dirPath, "call")]
  /\ theme' = [theme EXCEPT ![i] = mergeTheme(Undefined)]
  /\ UNCHANGED <<status, config, templates, partials, lastReg, call, themeVars>>

\* loadTemplatesFromDirectory(dirPath) is called
LoadTemplatesFromDirectory(i, dirPath) ==
  /\ status[i] = "ready"
  /\ load[i].pc = "idle"
  /\ load' = [load EXCEPT ![i] = StartLoad(dirPath, "call")]
  /\ UNCHANGED <<status, config, templates, theme, partials, lastReg, call,
                 themeVars>>

\* error instanceof Error ? error.message : String(error), wrapped
Wrapped(text, dirPath, error) ==
  Err([text |-> text, path |-> dirPath, cause |-> ErrorString(error)])

\* the directory load of instance i settles: its promise, and the promise
\* of initialize when initialize is what awaits it
SettleLoad(i, outcome) ==
  /\ load' = [load EXCEPT ![i] = Idle]
  /\ IF load[i].owner = "initialize"
       THEN /\ status' = [status EXCEPT ![i] =
                            IF outcome.kind = "resolve" THEN "ready" ELSE "failed"]
            /\ call' = [op |-> "initialize", inst |-> i,
                        outcome |-> IF outcome.kind = "resolve"
                                      THEN Resolved(Str(i)) ELSE outcome]
       ELSE /\ status' = status
            /\ call' = [op |-> "loadTemplatesFromDirectory", inst |-> i,
                        dir |-> load[i].dir, outcome |-> outcome]

\* the catch block of loadTemplatesFromDirectory
FailLoad(i, error) ==
  SettleLoad(i, Rejected(Wrapped("Failed to load templates from directory",
                                 load[i].dir, error)))

\* one iteration of the loop of loadPartials / loadLayouts over dirPath
LoadPartialDir(i, dirPath, prefix, failText, nextPc) ==
  LET ld == load[i]
      r == ReadDir(dirPath)
      leave == /\ load' = [load EXCEPT ![i] = [ld EXCEPT !.pc = nextPc, !.k = 1]]
               /\ UNCHANGED <<status, partials, call>>
      fail(error) == /\ FailLoad(i, Wrapped(failText, dirPath, error))
                     /\ UNCHANGED partials
  IN
  /\ IF ~r.ok
       THEN IF IsNotFound(r.error) THEN leave ELSE fail(r.error)
     ELSE IF ld.k > Len(r.entries)
       THEN leave
     ELSE LET entry == r.entries[ld.k] IN
       IF entry.isFile
         THEN LET f == ReadTextFile(Append(dirPath, entry.name)) IN
           IF f.ok
             THEN /\ partials' = MapSet(partials,
                                        PartialKey(prefix, Stem(entry.name)),
                                        f.content)
                  /\ load' = [load EXCEPT ![i] = [ld EXCEPT !.k = ld.k + 1]]
                  /\ UNCHANGED <<status, call>>
             ELSE IF IsNotFound(f.error) THEN leave ELSE fail(f.error)
         ELSE /\ load' = [load EXCEPT ![i] = [ld EXCEPT !.k = ld.k + 1]]
              /\ UNCHANGED <<status, partials, call>>
  /\ UNCHANGED <<config, templates, theme, lastReg, themeVars>>

LoadPartials(i) ==
  /\ load[i].pc = "partials"
  /\ LoadPartialDir(i, Append(load[i].dir, N("partials")), "",
                    "Failed to load partials from directory", "layouts")

LoadLayouts(i) ==
  /\ load[i].pc = "layouts"
  /\ LoadPartialDir(i, Append(load[i].dir, N("layouts")), "layouts-",
                    "Failed to load layouts from directory", "root")

\* loadTemplate(name, filepath) as the directory loader awaits it
LoadFileInto(i, name, filepath, next) ==
  LET f == ReadTextFile(filepath) IN
  IF f.ok
    THEN /\ templates' = [templates EXCEPT ![i] =
                            registerTemplate(@, name, f.content)]
         /\ lastReg' = [lastReg EXCEPT ![i] = MapSet(@, name, f.content)]
         /\ load' = [load EXCEPT ![i] = next]
         /\ UNCHANGED <<status, call>>
    ELSE /\ FailLoad(i, f.error)
         /\ UNCHANGED <<templates, lastReg>>

\* one iteration of the loop over the root directory
LoadRoot(i) ==
  LET ld == load[i]
      r == ReadDir(ld.dir)
  IN
  /\ ld.pc = "root"
  /\ IF ~r.ok
       THEN /\ FailLoad(i, r.error)
            /\ UNCHANGED <<templates, lastReg>>
     ELSE IF ld.k > Len(r.entries)
       THEN /\ SettleLoad(i, Resolved(Undefined))
            /\ UNCHANGED <<templates, lastReg>>
     ELSE LET entry == r.entries[ld.k] IN
       IF entry.isFile
         THEN LoadFileInto(i, Stem(entry.name), Append(ld.dir, entry.name),
                           [ld EXCEPT !.k = ld.k + 1])
       ELSE IF entry.isDirectory /\ entry.name = N("templates")
         THEN /\ load' = [load EXCEPT ![i] = [ld EXCEPT !.pc = "sub", !.j = 1]]
              /\ UNCHANGED <<status, call, templates, lastReg>>
       ELSE /\ load' = [load EXCEPT ![i] = [ld EXCEPT !.k = ld.k + 1]]
            /\ UNCHANGED <<status, call, templates, lastReg>>
  /\ UNCHANGED <<config, theme, partials, themeVars>>

\* one iteration of the loop over the templates subdirectory
LoadSub(i) ==
  LET ld == load[i]
      templatesSubPath == Append(ld.dir, N("templates"))
      r == ReadDir(templatesSubPath)
  IN
  /\ ld.pc = "sub"
  /\ IF ~r.ok
       THEN /\ FailLoad(i, r.error)
            /\ UNCHANGED <<templates, lastReg>>
     ELSE IF ld.j > Len(r.entries)
       THEN /\ load' = [load EXCEPT ![i] = [ld EXCEPT !.pc = "root", !.k = ld.k + 1]]
            /\ UNCHANGED <<status, call, templates, lastReg>>
     ELSE LET templateEntry == r.entries[ld.j] IN
       IF templateEntry.isFile
         THEN LoadFileInto(i, Stem(templateEntry.name),
                           Append(templatesSubPath, templateEntry.name),
                           [ld EXCEPT !.j = ld.j + 1])
         ELSE /\ load' = [load EXCEPT ![i] = [ld EXCEPT !.j = ld.j + 1]]
              /\ UNCHANGED <<status, call, templates, lastReg>>
  /\ UNCHANGED <<config, theme, partials, themeVars>>

(***************************************************************************)
(* Courier: the public methods, called on a ready instance                 *)
(***************************************************************************)
RegisterTemplate(i, name, template) ==
  /\ status[i] = "ready"
  /\ templates' = [templates EXCEPT ![i] = registerTemplate(@, name, template)]
  /\ lastReg' = [lastReg EXCEPT ![i] = MapSet(@, name, template)]
  /\ call' = [op |-> "registerTemplate", inst |-> i, name |-> name,
              template |-> template, outcome |-> Returned(Undefined)]
  /\ UNCHANGED <<status, config, theme, partials, load, themeVars>>

\* loadTemplate that catches the failure of the read and registers an empty
\* template instead
LoadTemplateSwallowing(i, name, filepath) ==
  LET f == ReadTextFile(filepath)
      template == IF f.ok THEN f.content ELSE ""
  IN
  /\ status[i] = "ready"
  /\ templates' = [templates EXCEPT ![i] = registerTemplate(@, name, template)]
  /\ lastReg' = [lastReg EXCEPT ![i] = MapSet(@, name, template)]
  /\ call' = [op |-> "loadTemplate", inst |-> i, name |-> name,
              filepath |-> filepath, before |-> templates[i],
              outcome |-> Resolved(Undefined)]
  /\ UNCHANGED <<status, config, theme, partials, load, themeVars>>

\* loadTemplate(name, filepath), from the call to the settling of its promise
LoadTemplate(i, name, filepath) ==
  LET f == ReadTextFile(filepath) IN
  /\ status[i] = "ready"
  /\ IF f.ok
       THEN /\ templates' = [templates EXCEPT ![i] =
                               registerTemplate(@, name, f.content)]
            /\ lastReg' = [lastReg EXCEPT ![i] = MapSet(@, name, f.content)]
       ELSE UNCHANGED <<templates, lastReg>>
  /\ call' = [op |-> "loadTemplate", inst |-> i, name |-> name,
              filepath |-> filepath, before |-> templates[i],
              outcome |-> IF f.ok THEN Resolved(Undefined) ELSE Rejected(f.error)]
  /\ UNCHANGED <<status, config, theme, partials, load, themeVars>>

RenderTemplate(i, templateName) ==
  LET data == input.data
      r == renderTemplate(templates[i], partials, theme[i], templateName, data) IN
  /\ status[i] = "ready"
  /\ call' = [op |-> "renderTemplate", inst |-> i, name |-> templateName,
              data |-> data, before |-> templates[i], parts |-> partials,
              outcome |-> r.outcome, body |-> r.body, layout |-> r.layout]
  /\ UNCHANGED <<status, config, templates, theme, partials, load, lastReg,
                 themeVars>>

\* send that hands the message to the transport a second time when the
\* first sendMail failed
SendRetrying(i) ==
  LET message == input.message
      delivery == input.delivery
      r == send(config[i], message, delivery)
      sent == IF delivery.kind = "reject" THEN r.sent \o r.sent ELSE r.sent
  IN
  /\ status[i] = "ready"
  /\ call' = [op |-> "send", inst |-> i, message |-> message,
              delivery |-> delivery, outcome |-> r.outcome, sent |-> sent]
  /\ UNCHANGED <<status, config, templates, theme, partials, load, lastReg,
                 themeVars>>

Send(i) ==
  LET message == input.message
      delivery == input.delivery
      r == send(config[i], message, delivery)
  IN
  /\ status[i] = "ready"
  /\ call' = [op |-> "send", inst |-> i, message |-> message,
              delivery |-> delivery, outcome |-> r.outcome, sent |-> r.sent]
  /\ UNCHANGED <<status, config, templates, theme, partials, load, lastReg,
                 themeVars>>

SendWithTemplate(i, templateName) ==
  LET data == input.data
      message == input.message
      delivery == input.delivery
      r == sendWithTemplate(templates[i], partials, theme[i], config[i],
                            templateName, data, message, delivery)
  IN
  /\ status[i] = "ready"
  /\ call' = [op |-> "sendWithTemplate", inst |-> i, name |-> templateName,
              data |-> data, message |-> message, delivery |-> delivery,
              before |-> templates[i], outcome |-> r.outcome, sent |-> r.sent]
  /\ UNCHANGED <<status, config, templates, theme, partials, load, lastReg,
                 themeVars>>

Verify(i) ==
  LET check == input.delivery IN
  /\ status[i] = "ready"
  /\ call' = [op |-> "verify", inst |-> i, check |-> check,
              outcome |-> verify(check)]
  /\ UNCHANGED <<status, config, templates, theme, partials, load, lastReg,
                 themeVars>>

(***************************************************************************)
(* Bounded inputs of the Courier operations                                *)
(***************************************************************************)
SmtpUser == Str("test@icloud.com")

BaseConfig == [smtp |-> [user |-> SmtpUser, pass |-> Str("test-password")]]

\* what transporter.sendMail and transporter.verify may do
ThrownValues ==
  { Err(Msg("connect ECONNREFUSED")), Err(Msg("")), Str("boom"), Undefined }

Deliveries ==
  { Resolved([messageId |-> Str("<1@icloud.com>")]) }
    \cup { Rejected(e) : e \in ThrownValues }

Alice == Obj([email |-> Str("alice@example.com"), name |-> Str("Alice A")])

Bob == Obj([email |-> Str("bob@example.com")])

Carol == Str("carol@example.com")

Senders == { Str("sender@example.com"), Alice }

Recipients == { Carol, Alice, Bob, Arr(<<Carol, Alice>>), Arr(<<>>) }

DefaultFroms == { Str("noreply@example.com"), Alice }

\* what the registry operations are called with
TemplateNames == { N("welcome"), N("greeting") }

TemplateSources == { SrcHi, SrcMalformed }

TemplatePaths ==
  { Append(PlainDir, Hbs("welcome")), Append(MissingDir, Hbs("template")) }

PlainData == { EmptyObj, [name |-> Str("Alice")] }

MaxOptional == 1

MaxDataKeys == 1

\* the optional fields a message may carry next to its recipients and subject
OptionalFields ==
  { <<"from", s>> : s \in Senders \cup {Str("")} }
    \cup { <<"cc", Carol>>, <<"cc", Arr(<<Bob, Alice>>)>>, <<"bcc", Bob>>,
           <<"replyTo", Alice>>, <<"replyTo", Carol>>,
           <<"text", Str("This is a test email")>>, <<"text", Str("")>>,
           <<"html", Str("<p>Hi</p>")>> }

\* the object holding a set of <<key, value>> pairs with distinct keys
ObjOf(pairs) ==
  [k \in {p[1] : p \in pairs} |-> (CHOOSE p \in pairs : p[1] = k)[2]]

FieldSets(fields, max) ==
  { F \in SUBSET fields :
      /\ Cardinality(F) <= max
      /\ \A p, q \in F : p[1] = q[1] => p = q }

\* EmailMessage values, and one message whose recipients are missing
Messages ==
  { Spread([to |-> t, subject |-> Str("Test Email")], ObjOf(F)) :
      t \in Recipients, F \in FieldSets(OptionalFields, MaxOptional) }
    \cup { [subject |-> Str("Test Email")] }

\* the keys renderTemplate treats specially, with truthy and falsy values,
\* and an ordinary key
DataFields ==
  { <<"body", Str("<p>caller body</p>")>>,
    <<"emailStyles", Str("<style>caller</style>")>>, <<"emailStyles", Str("")>>,
    <<"lang", Str("fr")>>, <<"lang", Str("")>>,
    <<"year", Num(1999)>>, <<"year", Num(0)>>,
    <<"companyName", Str("Acme")>>,
    <<"emailTitle", Str("Welcome!")>>,
    <<"subject", Str("Your account")>>,
    <<"name", Str("Alice")>> }

LayoutDatas == { ObjOf(F) : F \in FieldSets(DataFields, MaxDataKeys) }

RegistryConfigs ==
  { BaseConfig, Spread(BaseConfig, [templatesDir |-> EmailsDir]),
    Spread(BaseConfig, [templatesDir |-> MissingDir]) }

RegistryDirs == { EmailsDir, MissingDir }

SendConfigs ==
  { BaseConfig } \cup { Spread(BaseConfig, [defaultFrom |-> f]) : f \in DefaultFroms }

LayoutConfigs ==
  { Spread(BaseConfig, t) :
      t \in { EmptyObj, [theme |-> Obj([colors |-> [accent |-> "#ff0000"]])] } }

LayoutDirs == { EmailsDir, BlankDir }

DefaultInput ==
  [ message  |-> [to |-> Carol, subject |-> Str("Test")],
    data     |-> [name |-> Str("Alice")],
    delivery |-> Resolved([messageId |-> Str("<1@icloud.com>")]) ]

(***************************************************************************)
(* Specifications                                                          *)
(***************************************************************************)
\* one instance: registry, directory loader and rendering
Init ==
  /\ InitThemeIdle
  /\ InitCourier
  /\ input \in { [DefaultInput EXCEPT !.data = d] : d \in PlainData }

Next ==
  \E i \in {"A"} :
    \/ \E cfg \in RegistryConfigs : Initialize(i, cfg)
    \/ \E d \in RegistryDirs : LoadTemplatesFromDirectory(i, d)
    \/ LoadPartials(i)
    \/ LoadLayouts(i)
    \/ LoadRoot(i)
    \/ LoadSub(i)
    \/ \E n \in TemplateNames, s \in TemplateSources : RegisterTemplate(i, n, s)
    \/ \E n \in TemplateNames, p \in TemplatePaths : LoadTemplate(i, n, p)
    \/ \E n \in TemplateNames : RenderTemplate(i, n)

Spec == Init /\ [][Next]_vars

\* one instance: main layouts, themes and the data handed to the layout
InitLayout ==
  /\ InitThemeIdle
  /\ InitCourier
  /\ input \in { [DefaultInput EXCEPT !.data = d] : d \in LayoutDatas }

NextLayout ==
  \E i \in {"A"} :
    \/ \E cfg \in LayoutConfigs : Initialize(i, cfg)
    \/ \E d \in LayoutDirs : LoadTemplatesFromDirectory(i, d)
    \/ LoadPartials(i)
    \/ LoadLayouts(i)
    \/ LoadRoot(i)
    \/ LoadSub(i)
    \/ \E s \in {SrcHello, SrcMalformed} : RegisterTemplate(i, N("welcome"), s)
    \/ RenderTemplate(i, N("welcome"))

SpecLayout == InitLayout /\ [][NextLayout]_vars

\* one instance: dispatch
InitSend ==
  /\ InitThemeIdle
  /\ InitCourier
  /\ input \in { [DefaultInput EXCEPT !.message = m, !.delivery = d] :
                    m \in Messages, d \in Deliveries }

NextSend ==
  \E i \in {"A"} :
    \/ \E cfg \in SendConfigs : Initialize(i, cfg)
    \/ \E s \in {SrcHello, SrcMalformed, SrcEmpty} :
         RegisterTemplate(i, N("welcome"), s)
    \/ Send(i)
    \/ \E n \in TemplateNames : SendWithTemplate(i, n)
    \/ Verify(i)

SpecSend == InitSend /\ [][NextSend]_vars

\* the theme functions on every bounded argument
InitTheme ==
  /\ themeArg \in ThemeArgs
  /\ baseTheme \in BaseThemes
  /\ themeCall = NoCall
  /\ snapshot = NoSnapshot
  /\ InitCourier
  /\ input = DefaultInput

NextTheme ==
  \/ CallMergeTheme
  \/ CallCreateTheme
  \/ CallGenerateThemedCSS

SpecTheme == InitTheme /\ [][NextTheme]_vars

\* one instance: directory loads over directories with and without
\* subdirectories, missing and unreadable ones; the caller awaits a load
\* before it registers a template itself
LoadDirs == { EmailsDir, PlainDir, AltDir, BrokenDir, MissingDir }

LoadConfigs ==
  { BaseConfig } \cup { Spread(BaseConfig, [templatesDir |-> d]) : d \in LoadDirs }

InitLoad ==
  /\ InitThemeIdle
  /\ InitCourier
  /\ input = DefaultInput

NextLoad ==
  \E i \in {"A"} :
    \/ \E cfg \in LoadConfigs : Initialize(i, cfg)
    \/ \E d \in LoadDirs : LoadTemplatesFromDirectory(i, d)
    \/ LoadPartials(i)
    \/ LoadLayouts(i)
    \/ LoadRoot(i)
    \/ LoadSub(i)
    \/ load[i].pc = "idle" /\ RegisterTemplate(i, N("welcome"), SrcBuiltin)

SpecLoad == InitLoad /\ [][NextLoad]_vars

\* two instances in one process, their calls interleaved: A is initialized
\* with or without a templates directory and loads directories, B is
\* initialized without one; both register a template and render it
PairDirs == { EmailsDir, PlainDir }

PairConfigs ==
  { BaseConfig } \cup { Spread(BaseConfig, [templatesDir |-> d]) : d \in PairDirs }

InitPair ==
  /\ InitThemeIdle
  /\ InitCourier
  /\ input = DefaultInput

NextPair ==
  \/ \E cfg \in PairConfigs : Initialize("A", cfg)
  \/ Initialize("B", BaseConfig)
  \/ \E d \in PairDirs : LoadTemplatesFromDirectory("A", d)
  \/ LoadPartials("A")
  \/ LoadLayouts("A")
  \/ LoadRoot("A")
  \/ LoadSub("A")
  \/ \E i \in Instances, src \in {SrcHello, SrcWithHeader} :
       RegisterTemplate(i, N("welcome"), src)
  \/ \E i \in Instances : RenderTemplate(i, N("welcome"))

SpecPair == InitPair /\ [][NextPair]_vars

\* one instance over its whole life: every public method, on directories
\* that load and on one that fails half way, with a transport that
\* delivers or fails
LifeDirs == { EmailsDir, BrokenDir }

LifeConfigs ==
  { Spread(BaseConfig, t) :
      t \in { EmptyObj, [theme |-> Obj([colors |-> [accent |-> "#ff0000"]])],
              [templatesDir |-> EmailsDir] } }

LifeDeliveries ==
  { DefaultInput.delivery, Rejected(Err(Msg("connect ECONNREFUSED"))) }

InitLife ==
  /\ InitThemeIdle
  /\ InitCourier
  /\ input \in { [DefaultInput EXCEPT !.delivery = d] : d \in LifeDeliveries }

NextLife ==
  \E i \in {"A"} :
    \/ \E cfg \in LifeConfigs : Initialize(i, cfg)
    \/ \E d \in LifeDirs : LoadTemplatesFromDirectory(i, d)
    \/ LoadPartials(i)
    \/ LoadLayouts(i)
    \/ LoadRoot(i)
    \/ LoadSub(i)
    \/ RegisterTemplate(i, N("greeting"), SrcHello)
    \/ \E p \in TemplatePaths : LoadTemplate(i, N("welcome"), p)
    \/ \E n \in TemplateNames : RenderTemplate(i, n)
    \/ Send(i)
    \/ \E n \in TemplateNames : SendWithTemplate(i, n)
    \/ Verify(i)

SpecLife == InitLife /\ [][NextLife]_vars

\* the overrides mergeTheme is given: none, or a partial ThemeConfig
CssOverrides == {Undefined, Null} \cup {Obj(P) : P \in ThemeOverrides}

\* the overrides of the calls made in between
CssOthers == { Obj([colors |-> [text |-> "#00ff00"]]) }

\* stylesheets generated again and again, other calls in between
InitCss ==
  /\ themeArg \in CssOverrides
  /\ baseTheme = DefaultTheme
  /\ themeCall = NoCall
  /\ snapshot = NoSnapshot
  /\ InitCourier
  /\ input = DefaultInput

NextCss ==
  \/ \E X \in {themeArg} \cup CssOthers : CallGenerateMerged(X)
  \/ CallMergeTheme

SpecCss == InitCss /\ [][NextCss]_vars

(***************************************************************************)
(* Dispatch: properties                                                    *)
(***************************************************************************)
\* C1: whenever transporter.sendMail fails, with whatever thrown value,
\* send(message) resolves to a result whose success is false and whose
\* error is a non-empty string.
C1_SendFailureHasNonEmptyError ==
  (call.op = "send" /\ call.sent # <<>> /\ call.delivery.kind = "reject") =>
    /\ call.outcome.kind = "resolve"
    /\ call.outcome.value.success = FALSE
    /\ "error" \in DOMAIN call.outcome.value
    /\ call.outcome.value.error.text # ""

\* rendering templateName on the registry the call found throws
RenderFails(c) ==
  renderTemplate(c.before, partials, theme[c.inst], c.name, c.data).outcome.kind
    = "throw"

\* C2: sendWithTemplate resolves, for every template name, data and message,
\* to a SendResult; when the name is not registered or the rendering throws,
\* the result is {success: false, error: <string>}.
C2_SendWithTemplateNeverThrows ==
  call.op = "sendWithTemplate" =>
    /\ call.outcome.kind = "resolve"
    /\ call.outcome.value.success \in BOOLEAN
    /\ (call.name \notin DOMAIN call.before \/ RenderFails(call)) =>
         /\ call.outcome.value.success = FALSE
         /\ "error" \in DOMAIN call.outcome.value
         /\ "text" \in DOMAIN call.outcome.value.error
         /\ call.sent = <<>>

\* sendWithTemplate on a name that was never registered has resolved to a
\* failure naming the missing template
C2_Witness ==
  /\ call.op = "sendWithTemplate"
  /\ call.name \notin DOMAIN call.before
  /\ call.outcome = Resolved(Failure(TemplateNotFound(call.name)))

\* C3: every SendResult of send and sendWithTemplate carries messageId and
\* no error when success is true, error and no messageId when success is
\* false.
C3_ExactlyOneOfMessageIdAndError ==
  (call.op \in {"send", "sendWithTemplate"} /\ call.outcome.kind = "resolve") =>
    LET result == call.outcome.value IN
      IF result.success
        THEN /\ "messageId" \in DOMAIN result
             /\ result.messageId.type = "string"
             /\ "error" \notin DOMAIN result
        ELSE /\ "error" \in DOMAIN result
             /\ "text" \in DOMAIN result.error
             /\ "messageId" \notin DOMAIN result

\* a send whose transport failed has resolved to {success: false, error}
C3_Witness ==
  /\ call.op = "send"
  /\ call.sent # <<>>
  /\ call.delivery.kind = "reject"
  /\ call.outcome.kind = "resolve"
  /\ DOMAIN call.outcome.value = {"success", "error"}
  /\ call.outcome.value.success = FALSE

\* a sender is given: the value is there and is not the empty string
Given(o, k) == ~Falsy(Get(o, k))

\* C16: the from handed to the transport is message.from when that is
\* given, else the configured defaultFrom when that is given, else the
\* SMTP account user.
C16_SenderPrecedence ==
  (call.op \in {"send", "sendWithTemplate"} /\ call.sent # <<>>) =>
    LET cfg == config[call.inst]
        chosen == IF Given(call.message, "from") THEN call.message.from
                  ELSE IF Given(cfg, "defaultFrom") THEN cfg.defaultFrom
                  ELSE cfg.smtp.user
    IN call.sent[1].from = formatAddress(chosen).value

\* a message with a from of its own was sent by an instance that has a
\* different defaultFrom, and the transport got the message's from
C16_Witness ==
  /\ call.op = "send"
  /\ call.sent # <<>>
  /\ Given(call.message, "from")
  /\ Given(config[call.inst], "defaultFrom")
  /\ call.message.from # config[call.inst].defaultFrom
  /\ call.sent[1].from = formatAddress(call.message.from).value
  /\ call.sent[1].from # formatAddress(config[call.inst].defaultFrom).value

\* what the transport is to get for one address: a string as it is, a
\* {name, email} pair as "name <email>", a pair without a name as its email
OneAddress(a) ==
  IF a.type = "string" THEN a
  ELSE IF "name" \in DOMAIN a.val /\ a.val.name # Str("")
    THEN [type |-> "string", name |-> a.val.name, email |-> a.val.email]
    ELSE a.val.email

\* what the transport is to get for a recipient field
Addresses(v) ==
  IF v.type = "array"
    THEN [type |-> "array",
          items |-> [k \in 1..Len(v.items) |-> OneAddress(v.items[k])]]
    ELSE OneAddress(v)

\* C17: in the mailOptions handed to the transport a bare address string is
\* unchanged, a name and address pair is "name <address>", and a list is a
\* list of the same length and order, each entry formatted by itself.
C17_AddressFormatting ==
  (call.op = "send" /\ call.sent # <<>>) =>
    /\ call.sent[1].to = Addresses(call.message.to)
    /\ "cc" \in DOMAIN call.message => call.sent[1].cc = Addresses(call.message.cc)
    /\ "bcc" \in DOMAIN call.message =>
         call.sent[1].bcc = Addresses(call.message.bcc)

\* a message to a list of a bare address and a name and address pair has
\* been handed to the transport
C17_Witness ==
  /\ call.op = "send"
  /\ call.sent # <<>>
  /\ call.message.to = Arr(<<Carol, Alice>>)
  /\ call.sent[1].to =
       Arr(<<Carol, Formatted(Str("Alice A"), Str("alice@example.com"))>>)

\* C28: sendWithTemplate calls transporter.sendMail only when renderTemplate
\* has returned, and then with html being what it returned; when
\* renderTemplate throws, sendMail is not called.
C28_SendAfterRender ==
  call.op = "sendWithTemplate" =>
    LET html == renderTemplate(call.before, partials, theme[call.inst],
                               call.name, call.data).outcome
    IN /\ html.kind = "throw" => call.sent = <<>>
       /\ call.sent # <<>> =>
            /\ html.kind = "return"
            /\ "html" \in DOMAIN call.sent[1]
            /\ call.sent[1].html = html.value

C18_VerifyNeverThrows ==
  call.op = "verify" =>
    /\ call.outcome.kind = "resolve"
    /\ call.outcome.value = (call.check.kind = "resolve")

\* verify has resolved to false on a transport that failed
C18_Witness ==
  /\ call.op = "verify"
  /\ call.check.kind = "reject"
  /\ call.outcome = Resolved(FALSE)

(***************************************************************************)
(* Two instances: properties                                               *)
(***************************************************************************)
\* what i.renderTemplate(templateName, input.data) gives in the current state
RenderOn(i, templateName) ==
  renderTemplate(templates[i], partials, theme[i], templateName, input.data).outcome

\* a step that is not a step of instance i: none of its fields changes
StepOfAnother(i) ==
  /\ status'[i] = status[i]
  /\ config'[i] = config[i]
  /\ templates'[i] = templates[i]
  /\ theme'[i] = theme[i]
  /\ load'[i] = load[i]

\* C19: the registries are owned by one instance: no step of a registration
\* or of a directory load on one instance changes what renderTemplate gives
\* on another, ready, instance.
C19_InstanceExclusiveRegistries ==
  [][ \A i \in Instances :
        (status[i] = "ready" /\ StepOfAnother(i)) =>
          \A n \in TemplateNames : RenderOn(i, n)' = RenderOn(i, n) ]_vars

(***************************************************************************)
(* Template registry: properties                                           *)
(***************************************************************************)
\* C24: no operation removes an entry of the template registry: a name that
\* is registered stays registered after every step of every operation, and
\* renderTemplate does not fail on it with template-not-found.
C24_EntriesNeverExpire ==
  /\ [][ \A i \in {"A"} : DOMAIN templates[i] \subseteq DOMAIN templates'[i] ]_vars
  /\ [](\A i \in {"A"} : \A n \in DOMAIN templates[i] :
          renderTemplate(templates[i], partials, theme[i], n,
                         input.data).outcome # Threw(TemplateNotFound(n)))

\* welcome, loaded from a file, is still registered after a directory load
\* that failed half way
C24_Witness ==
  /\ call.op = "loadTemplatesFromDirectory"
  /\ call.dir = BrokenDir
  /\ call.outcome.kind = "reject"
  /\ N("welcome") \in DOMAIN lastReg[call.inst]
  /\ N("welcome") \in DOMAIN templates[call.inst]

\* C21: loadTemplate(name, path) of a file that cannot be read rejects with
\* the failure of the read, and the template registry is what it was before
\* the call: name is not added, an earlier entry for name is kept.
C21_LoadTemplateFailureKeepsRegistry ==
  ( /\ call.op = "loadTemplate"
    /\ load[call.inst].pc = "idle"
    /\ ~ReadTextFile(call.filepath).ok ) =>
      /\ call.outcome = Rejected(ReadTextFile(call.filepath).error)
      /\ templates[call.inst] = call.before

\* loadTemplate of a missing file has rejected on an instance that had the
\* name registered before, and the entry is still there
C21_Witness ==
  /\ call.op = "loadTemplate"
  /\ load[call.inst].pc = "idle"
  /\ ~ReadTextFile(call.filepath).ok
  /\ call.outcome.kind = "reject"
  /\ call.name \in DOMAIN call.before
  /\ call.name \in DOMAIN templates[call.inst]

\* C4: a renderTemplate(name, data) whose name is not in the instance's
\* registry throws the template-not-found error for that name, whatever
\* preceded it, and leaves the registry as it was.
C4_UnregisteredRenderFails ==
  [][\A n \in TemplateNames :
       (RenderTemplate("A", n) /\ n \notin DOMAIN templates["A"]) =>
         /\ call'.outcome = Threw(TemplateNotFound(n))
         /\ templates' = templates]_vars

\* renderTemplate has thrown on a name missing from a registry that other
\* operations had filled
C4_Witness ==
  /\ call.op = "renderTemplate"
  /\ call.name \notin DOMAIN call.before
  /\ call.before # EmptyObj
  /\ call.outcome = Threw(TemplateNotFound(call.name))
  /\ templates[call.inst] = call.before

\* C5: renderTemplate(name, data) gives what it would give on a registry
\* holding nothing but the latest successful registration of name: the
\* sources registered under that name before have no effect.
C5_LastWriteWins ==
  [][\A n \in TemplateNames :
       (RenderTemplate("A", n) /\ n \in DOMAIN lastReg["A"]) =>
         call'.outcome =
           renderTemplate([x \in {n} |-> lastReg["A"][n]], partials,
                          theme["A"], n, input.data).outcome]_vars

\* the instance loaded welcome.hbs from its templates directory, welcome was
\* registered again with another source, and the render shows the latter
C5_Witness ==
  /\ call.op = "renderTemplate"
  /\ call.name = N("welcome")
  /\ "templatesDir" \in DOMAIN config[call.inst]
  /\ config[call.inst].templatesDir = EmailsDir
  /\ FileContents[Append(EmailsDir, Hbs("welcome"))] # SrcHi
  /\ N("welcome") \in DOMAIN call.before
  /\ call.before[N("welcome")] = SrcHi
  /\ call.body = <<Render(SrcHi, call.data, call.parts)>>
  /\ call.body[1].kind = "return"

(***************************************************************************)
(* Directory loader: properties                                            *)
(***************************************************************************)
\* the keys under which the files of dirPath/sub are registered
KeysOf(dirPath, sub, prefix) ==
  LET r == ReadDir(Append(dirPath, N(sub))) IN
  IF r.ok
    THEN { PartialKey(prefix, Stem(r.entries[k].name)) :
             k \in {h \in 1..Len(r.entries) : r.entries[h].isFile} }
    ELSE {}

\* the template names under which the files of a directory are registered
StemsOf(dirPath) ==
  LET r == ReadDir(dirPath) IN
  IF r.ok
    THEN { Stem(r.entries[k].name) :
             k \in {h \in 1..Len(r.entries) : r.entries[h].isFile} }
    ELSE {}

\* every file of the directory can be read
Readable(dirPath) ==
  LET r == ReadDir(dirPath) IN
  r.ok => \A k \in 1..Len(r.entries) :
            r.entries[k].isFile =>
              ReadTextFile(Append(dirPath, r.entries[k].name)).ok

\* the directory does not exist
Missing(dirPath) == dirPath \notin DOMAIN DirEntries

\* C13: loadTemplatesFromDirectory resolves, the templates of the root
\* registered, when partials/ or layouts/ or both do not exist; it rejects
\* with an error that carries the not-found failure when the root directory
\* does not exist.
C13_MissingSubdirsTolerated ==
  call.op = "loadTemplatesFromDirectory" =>
    LET d == call.dir
        subs == {Append(d, N("partials")), Append(d, N("layouts"))}
    IN /\ ( /\ ReadDir(d).ok
            /\ \E x \in subs : Missing(x)
            /\ \A x \in subs \cup {d, Append(d, N("templates"))} : Readable(x) ) =>
              /\ call.outcome = Resolved(Undefined)
              /\ StemsOf(d) \subseteq DOMAIN templates[call.inst]
       /\ Missing(d) =>
              /\ call.outcome.kind = "reject"
              /\ call.outcome.error.message.path = d
              /\ call.outcome.error.message.cause = ReadDir(d).error.message

\* a load of the directory that has neither partials/ nor layouts/ has
\* resolved, its welcome.hbs registered
C13_Witness ==
  /\ call.op = "loadTemplatesFromDirectory"
  /\ call.dir = PlainDir
  /\ Missing(Append(PlainDir, N("partials")))
  /\ Missing(Append(PlainDir, N("layouts")))
  /\ call.outcome = Resolved(Undefined)
  /\ N("welcome") \in DOMAIN templates[call.inst]

\* the paths of the files the loader registers as templates: the files of
\* the directory and those of its templates subdirectory
TemplateFiles(dirPath) ==
  LET files(d) == LET r == ReadDir(d) IN
                  IF r.ok THEN { Append(d, r.entries[k].name) :
                                   k \in {h \in 1..Len(r.entries) :
                                            r.entries[h].isFile} }
                          ELSE {}
      r == ReadDir(dirPath)
  IN files(dirPath) \cup
     IF r.ok /\ \E k \in 1..Len(r.entries) : r.entries[k] = Dir(N("templates"))
       THEN files(Append(dirPath, N("templates"))) ELSE {}

\* C14: once a loadTemplatesFromDirectory call has resolved, every name that
\* is the stem of a file of the directory renders from the source of such a
\* file, whatever was registered under the name before.
C14_DirectoryOverwrites ==
  ( /\ call.op = "loadTemplatesFromDirectory"
    /\ call.outcome.kind = "resolve"
    /\ load[call.inst].pc = "idle" ) =>
      \A f \in TemplateFiles(call.dir) :
        LET name == Stem(f[Len(f)])
            i == call.inst
        IN /\ name \in DOMAIN templates[i]
           /\ \E g \in TemplateFiles(call.dir) :
                /\ Stem(g[Len(g)]) = name
                /\ renderTemplate(templates[i], partials, theme[i], name,
                                  input.data).body
                     = <<Render(FileContents[g], input.data, partials)>>

\* an instance that got welcome from the emails directory at initialization
\* has loaded the plain directory since and renders its welcome.hbs
C14_Witness ==
  /\ call.op = "loadTemplatesFromDirectory"
  /\ call.dir = PlainDir
  /\ call.outcome.kind = "resolve"
  /\ load[call.inst].pc = "idle"
  /\ "templatesDir" \in DOMAIN config[call.inst]
  /\ config[call.inst].templatesDir = EmailsDir
  /\ FileContents[Append(PlainDir, Hbs("welcome"))]
       \notin { FileContents[g] :
                   g \in { h \in TemplateFiles(EmailsDir) :
                             Stem(h[Len(h)]) = N("welcome") } }
  /\ templates[call.inst][N("welcome")]
       = FileContents[Append(PlainDir, Hbs("welcome"))]

\* the directory load fails: the directory is missing or a file of it
\* cannot be read
LoadFails(dirPath) ==
  \/ Missing(dirPath)
  \/ \E x \in {dirPath, Append(dirPath, N("partials")),
               Append(dirPath, N("layouts")), Append(dirPath, N("templates"))} :
       ~Readable(x)

\* C20: initialize(config) with a templatesDir does not settle while the
\* directory load is in flight; once the instance is returned every template
\* file of the directory is registered and renders; when the load fails
\* initialize rejects and no instance is returned.
C20_InitializeAwaitsLoad ==
  \A i \in {"A"} :
    "templatesDir" \in DOMAIN config[i] =>
      LET d == config[i].templatesDir IN
      /\ status[i] = "initializing" => call.op # "initialize"
      /\ status[i] = "ready" =>
           \A f \in TemplateFiles(d) :
             /\ Stem(f[Len(f)]) \in DOMAIN templates[i]
             /\ renderTemplate(templates[i], partials, theme[i],
                               Stem(f[Len(f)]), input.data).outcome.kind = "return"
      /\ LoadFails(d) => status[i] # "ready"
      /\ status[i] = "failed" =>
           /\ call.op = "initialize"
           /\ call.outcome.kind = "reject"
      /\ (call.op = "initialize" /\ call.outcome.kind = "reject") =>
           status[i] = "failed"

\* initialize with the emails directory has just resolved: the load is over
\* and welcome, password-reset and digest.weekly are registered
C20_Witness ==
  /\ call.op = "initialize"
  /\ call.outcome.kind = "resolve"
  /\ "templatesDir" \in DOMAIN config[call.inst]
  /\ config[call.inst].templatesDir = EmailsDir
  /\ load[call.inst].pc = "idle"
  /\ {N("welcome"), N("password-reset"), <<"digest", "weekly">>}
       \subseteq DOMAIN templates[call.inst]

\* C29: a loadTemplatesFromDirectory call that rejects leaves the template
\* registry as it found it.  The files do not change during a call and the
\* caller does nothing else before it settles, so this is: a call rejects
\* only on a directory whose load fails, and no step of a call on such a
\* directory changes the registry.
C29_DirectoryLoadAllOrNothing ==
  [][ \A i \in {"A"} :
        load[i].pc # "idle" =>
          /\ (load'[i].pc = "idle" /\ call'.outcome.kind = "reject") =>
               LoadFails(load[i].dir)
          /\ LoadFails(load[i].dir) => templates'[i] = templates[i] ]_vars

\* a file name without its final extension segment: everything after the
\* last dot, and the dot, removed; a name without a dot has none
WithoutExtension(name) ==
  IF Len(name) <= 1 THEN name ELSE SubSeq(name, 1, Len(name) - 1)

\* C15: every file the directory loader has loaded is registered under its
\* file name with exactly the final extension segment removed.
C15_RegisteredUnderStem ==
  ( /\ call.op = "loadTemplatesFromDirectory"
    /\ call.outcome.kind = "resolve"
    /\ load[call.inst].pc = "idle" ) =>
      \A f \in TemplateFiles(call.dir) :
        WithoutExtension(f[Len(f)]) \in DOMAIN templates[call.inst]

\* C12: within one loadTemplatesFromDirectory call no layout is registered
\* before every partial of partials/ is, and no template before every
\* layout of layouts/ (and every partial) is.
C12_PartialsThenLayoutsThenTemplates ==
  [][\A i \in {"A"} :
       /\ (LoadLayouts(i) /\ partials' # partials) =>
            KeysOf(load[i].dir, "partials", "") \subseteq DOMAIN partials
       /\ ((LoadRoot(i) \/ LoadSub(i)) /\ templates'[i] # templates[i]) =>
            /\ KeysOf(load[i].dir, "partials", "") \subseteq DOMAIN partials
            /\ KeysOf(load[i].dir, "layouts", "layouts-") \subseteq DOMAIN partials
     ]_vars

\* a load of the emails directory has registered welcome, its header
\* partial and its main layout being registered by then
C12_Witness ==
  /\ load["A"].pc \in {"root", "sub"}
  /\ load["A"].dir = EmailsDir
  /\ N("welcome") \in DOMAIN templates["A"]
  /\ HeaderKey \in DOMAIN partials
  /\ MainLayoutKey \in DOMAIN partials

(***************************************************************************)
(* Composition pipeline: properties                                        *)
(***************************************************************************)
\* C6: when a main layout is registered, renderTemplate(name, data) hands
\* the layout a body equal to the output of the named template, for every
\* data, data that carries a body key included.
C6_RegisteredLayoutGetsBody ==
  ( /\ call.op = "renderTemplate"
    /\ MainLayoutKey \in DOMAIN call.parts
    /\ call.body # <<>>
    /\ call.body[1].kind = "return" ) =>
      /\ call.layout # <<>>
      /\ call.layout[1].body = call.body[1].value

\* C25: this.theme is mergeTheme(config.theme) from the construction on, no
\* step of any operation changes it, and the stylesheet handed to the main
\* layout by a render is the one generated from it.
C25_ThemeFixedAtInitialization ==
  /\ [][ \A i \in {"A"} : status[i] # "none" => theme'[i] = theme[i] ]_vars
  /\ [](\A i \in {"A"} :
          status[i] # "none" => theme[i] = mergeTheme(Get(config[i], "theme")))
  /\ []((call.op = "renderTemplate" /\ call.layout # <<>>) =>
          call.layout[1].emailStyles =
            generateThemedCSS(
              Obj(mergeTheme(Get(config[call.inst], "theme")))).value)

\* an instance configured with its own accent colour has loaded a directory
\* with a main layout and rendered through it
C25_Witness ==
  /\ call.op = "renderTemplate"
  /\ call.layout # <<>>
  /\ "theme" \in DOMAIN config[call.inst]
  /\ theme[call.inst].colors.accent = "#ff0000"
  /\ N("welcome") \in DOMAIN lastReg[call.inst]

\* C23: with no main layout registered, renderTemplate(name, data) gives
\* exactly what the named template gives on data: no layout data is built
\* and nothing is wrapped around the output.
C23_NoLayoutReturnsBody ==
  ( /\ call.op = "renderTemplate"
    /\ call.name \in DOMAIN call.before
    /\ MainLayoutKey \notin DOMAIN call.parts ) =>
      /\ call.outcome = Render(call.before[call.name], call.data, call.parts)
      /\ call.layout = <<>>

\* a registered template has been rendered, no main layout registered, on
\* data for which a layout would have had defaults to add
C23_Witness ==
  /\ call.op = "renderTemplate"
  /\ call.name \in DOMAIN call.before
  /\ MainLayoutKey \notin DOMAIN call.parts
  /\ call.outcome.kind = "return"
  /\ "lang" \notin DOMAIN call.data

\* the layout fields that have a default, and the default of each for data
LayoutDefault(data, k) ==
  CASE k = "lang"        -> Str("en")
    [] k = "year"        -> Num(CurrentYear)
    [] k = "companyName" -> Str("Your Company")
    [] k = "emailTitle"  -> Or(Get(data, "subject"), Str("Email"))

DefaultedFields == {"lang", "year", "companyName", "emailTitle"}

\* C22: in the data handed to the main layout, lang, year, companyName and
\* emailTitle have the caller's value when the caller's data has the key and
\* the default when it has not; every other key of the caller, body and
\* emailStyles apart, is passed through unchanged.
C22_DefaultsOnlyForAbsentFields ==
  (call.op = "renderTemplate" /\ call.layout # <<>>) =>
    LET data == call.data
        layoutData == call.layout[1]
    IN /\ \A k \in DefaultedFields :
            layoutData[k] = IF k \in DOMAIN data THEN data[k]
                                                ELSE LayoutDefault(data, k)
       /\ \A k \in DOMAIN data \ (DefaultedFields \cup {"body", "emailStyles"}) :
            layoutData[k] = data[k]

\* C7: the stylesheet handed to the main layout is the CSS generated from
\* the instance's merged theme, whatever stylesheet the caller's data holds.
C7_LayoutStylesFromTheme ==
  (call.op = "renderTemplate" /\ call.layout # <<>>) =>
    call.layout[1].emailStyles =
      generateThemedCSS(Obj(theme[call.inst])).value

\* a render through the main layout of an instance with a custom accent,
\* on data that carries a stylesheet of its own
C7_Witness ==
  /\ call.op = "renderTemplate"
  /\ MainLayoutKey \in DOMAIN call.parts
  /\ call.layout # <<>>
  /\ ~Falsy(Get(call.data, "emailStyles"))
  /\ theme[call.inst].colors.accent = "#ff0000"
  /\ call.layout[1].emailStyles # call.data.emailStyles

(***************************************************************************)
(* Theme merge engine and CSS generator: properties                        *)
(***************************************************************************)
\* the selectors of a list of rules, in the order of the rules
Selectors(rules) == [k \in DOMAIN rules |-> rules[k].selector]

\* the selectors generateThemedCSS emits for the default theme
DefaultSelectors == Selectors(ThemeRules(DefaultTheme))

\* the selector of each class of EmailClasses
ClassSelectors == { "." \o c : c \in EmailClasses }

\* C27: for every theme mergeTheme gives, generateThemedCSS emits the rule
\* selectors it emits for the default theme, in that order, none of them
\* twice, and among them the selector of every class of EmailClasses.
C27_FixedClassSet ==
  (themeCall.op = "generateMerged" /\ themeCall.outcome.kind = "return") =>
    LET sel == Selectors(themeCall.outcome.value.css) IN
    /\ sel = DefaultSelectors
    /\ Cardinality({sel[k] : k \in DOMAIN sel}) = Len(sel)
    /\ ClassSelectors \subseteq {sel[k] : k \in DOMAIN sel}

\* the stylesheet of a theme with its own accent colour has been generated
C27_Witness ==
  /\ themeCall.op = "generateMerged"
  /\ themeCall.outcome.kind = "return"
  /\ themeCall.arg.type = "object"
  /\ "colors" \in DOMAIN themeCall.arg.val
  /\ "accent" \in DOMAIN themeCall.arg.val.colors
  /\ Len(themeCall.outcome.value.css) > Cardinality(EmailClasses)

ConfigurationErrors ==
  { Err(Msg("Invalid theme configuration: theme must be an object")),
    Err(Msg("Invalid theme configuration: missing required theme properties")) }

\* C30: mergeTheme applied to what mergeTheme or createTheme returned, or to
\* a preset theme, returns that same theme, leaf for leaf.
C30_MergeThemeIdempotent ==
  /\ themeCall.op \in {"mergeTheme", "createTheme"} =>
       mergeTheme(Obj(themeCall.result)) = themeCall.result
  /\ themeCall.op = "createTheme" =>
       mergeTheme(Obj(themeCall.base)) = themeCall.base

\* a theme created from the dark preset with overrides of its own is what
\* mergeTheme makes of it
C30_Witness ==
  /\ themeCall.op = "createTheme"
  /\ themeCall.base = DarkTheme
  /\ "colors" \in DOMAIN themeCall.overrides
  /\ themeCall.result # DefaultTheme
  /\ themeCall.result # DarkTheme
  /\ mergeTheme(Obj(themeCall.result)) = themeCall.result

\* C8: for every partial override P (absent, empty, or any subset of leaves,
\* partial fontSize / fontWeight maps included) mergeTheme(P) defines every
\* leaf of the default theme, has P's value at every leaf P defines and the
\* default theme's value at every leaf P does not define.
C8_MergeCompleteNonDestructive ==
  (themeCall.op = "mergeTheme" /\ ~(themeCall.arg.type = "string")) =>
    LET P == IF Falsy(themeCall.arg) THEN EmptyObj ELSE themeCall.arg.val
        M == themeCall.result
    IN /\ \A p \in LeafPaths(DefaultTheme) : HasLeaf(M, p)
       /\ \A p \in LeafPaths(P) : HasLeaf(M, p) /\ LeafAt(M, p) = LeafAt(P, p)
       /\ \A p \in LeafPaths(DefaultTheme) \ LeafPaths(P) :
            LeafAt(M, p) = LeafAt(DefaultTheme, p)

\* an override of colors.accent alone and of one entry of the fontSize map
C8_Witness ==
  /\ themeCall.op = "mergeTheme"
  /\ themeCall.arg.type = "object"
  /\ DOMAIN themeCall.arg.val = {"colors", "typography"}
  /\ DOMAIN themeCall.arg.val.colors = {"accent"}
  /\ DOMAIN themeCall.arg.val.typography = {"fontSize"}
  /\ DOMAIN themeCall.arg.val.typography.fontSize = {"base"}
  /\ themeCall.result.colors.accent = themeCall.arg.val.colors.accent
  /\ themeCall.result.colors.text = DefaultTheme.colors.text
  /\ themeCall.result.typography.fontSize["xs"] = "12px"

\* C9: createTheme(baseTheme, overrides) has the overrides' value at every
\* leaf the overrides define and the base theme's value at every other leaf
\* the base defines.
C9_CreateThemeExtendsBase ==
  themeCall.op = "createTheme" =>
    LET B == themeCall.base
        O == themeCall.overrides
        R == themeCall.result
    IN /\ \A p \in LeafPaths(O) : HasLeaf(R, p) /\ LeafAt(R, p) = LeafAt(O, p)
       /\ \A p \in LeafPaths(B) \ LeafPaths(O) :
            HasLeaf(R, p) /\ LeafAt(R, p) = LeafAt(B, p)

\* the argument is not an object, or lacks one of the five groups
LacksGroup(arg) ==
  arg.type # "object" \/ \E g \in ThemeGroups : g \notin DOMAIN arg.val

\* C10: generateThemedCSS fails with a configuration error, and returns no
\* CSS, for every input that is not an object or lacks one of the five groups.
C10_CompletenessGuard ==
  (themeCall.op = "generateThemedCSS" /\ LacksGroup(themeCall.arg)) =>
    /\ themeCall.outcome.kind = "throw"
    /\ themeCall.outcome.error \in ConfigurationErrors

\* generateThemedCSS({colors: {}}) has thrown
C10_Witness ==
  /\ themeCall.op = "generateThemedCSS"
  /\ themeCall.arg = Obj([colors |-> EmptyObj])
  /\ themeCall.outcome.kind = "throw"

=============================================================================
